---- MODULE Spec2Model ----
(***************************************************************************)
(* Model of the remote virtual filesystem adapter (AppServiceFS with its   *)
(* Directory/File cache), of the tunnel proxy (DebugProxy), of the         *)
(* explorer's folder node (FolderTreeItem) and of the command              *)
(* startRemoteDebug of vscode-azureappservice.                             *)
(*                                                                         *)
(* JavaScript strings are modelled as sequences of one-character strings,  *)
(* so that indexOf/substring/split/dirname are computed as the code        *)
(* computes them.  Byte buffers are sequences of numbers 0..255.           *)
(***************************************************************************)
EXTENDS Integers, Sequences, FiniteSets, TLC

(***************************************************************************)
(* Bounds of the model.                                                    *)
(***************************************************************************)
NumCallers == 2        \* concurrent filesystem operations in flight
MaxOps == 2            \* filesystem operations started in one behaviour
MaxFailures == 1       \* remote calls that fail for reasons of their own
MaxExternal == 1       \* modifications made by writers other than the adapter
MaxSockets == 2        \* local sockets the proxy's listener accepts
MaxMessages == 1       \* messages received from the upstream connection
MaxChunks == 2         \* chunks received from local sockets
MaxDisposes == 1       \* dispose() calls made by the proxy's owner
MaxStarts == 2         \* startProxy() calls made by the proxy's owner
MaxListing == 2        \* files in one listing response

Callers == 1..NumCallers

(***************************************************************************)
(* String and path helpers (JavaScript / Node built-ins used by the code). *)
(***************************************************************************)
Slash == "/"

\* String.prototype.indexOf: 0-based index of the first occurrence, or -1.
IndexOf(s, sub) ==
    LET hits == {i \in 0..(Len(s) - Len(sub)) : SubSeq(s, i + 1, i + Len(sub)) = sub}
    IN  IF hits = {} THEN -1 ELSE CHOOSE i \in hits : \A j \in hits : i <= j

\* String.prototype.substring(start) with start clamped to [0, length].
Substring(s, start) ==
    LET st == IF start < 0 THEN 0 ELSE IF start > Len(s) THEN Len(s) ELSE start
    IN  SubSeq(s, st + 1, Len(s))

\* String.prototype.endsWith for a one-character suffix.
EndsWith(s, c) == Len(s) > 0 /\ s[Len(s)] = c

\* String.prototype.split('/'): the segments, empty ones included.
RECURSIVE Split(_)
Split(s) ==
    LET i == IndexOf(s, <<Slash>>)
    IN  IF i = -1 THEN <<s>>
        ELSE <<SubSeq(s, 1, i)>> \o Split(SubSeq(s, i + 2, Len(s)))

\* path.dirname (posix), as Node computes it: scanning from the right, the
\* first separator met after a non-separator ends the directory part.
Dirname(s) ==
    LET ends == {k \in 2..Len(s) : s[k] = Slash /\ \E j \in (k + 1)..Len(s) : s[j] # Slash}
        end  == IF ends = {} THEN -1
                ELSE (CHOOSE k \in ends : \A j \in ends : j <= k) - 1
    IN  IF Len(s) = 0 THEN <<".">>
        ELSE IF end = -1 THEN (IF s[1] = Slash THEN <<Slash>> ELSE <<".">>)
        ELSE IF s[1] = Slash /\ end = 1 THEN <<Slash, Slash>>
        ELSE SubSeq(s, 1, end)


(***************************************************************************)
(* Byte buffers and their text conversions.  writeFile sends               *)
(* content.toString() (UTF-8 decoding of the buffer) and readFile returns  *)
(* Buffer.from(result.data) (UTF-8 encoding of the text).                  *)
(***************************************************************************)
ReplacementChar == 65533

IsCont(b) == b >= 128 /\ b <= 191

\* Buffer.prototype.toString('utf8'): code points of the decoded text; a byte
\* that does not start a well-formed sequence decodes to U+FFFD.
RECURSIVE BufferToString(_)
BufferToString(bytes) ==
    IF bytes = <<>> THEN <<>>
    ELSE LET b == Head(bytes)
         IN  IF b < 128 THEN <<b>> \o BufferToString(Tail(bytes))
             ELSE IF b >= 194 /\ b <= 223 /\ Len(bytes) >= 2 /\ IsCont(bytes[2])
                  THEN <<(b - 192) * 64 + (bytes[2] - 128)>> \o BufferToString(SubSeq(bytes, 3, Len(bytes)))
                  ELSE <<ReplacementChar>> \o BufferToString(Tail(bytes))

\* Buffer.from(text, 'utf8'): the UTF-8 encoding of the code points.
RECURSIVE BufferFrom(_)
BufferFrom(text) ==
    IF text = <<>> THEN <<>>
    ELSE LET c == Head(text)
             enc == IF c < 128 THEN <<c>>
                    ELSE IF c < 2048 THEN <<192 + (c \div 64), 128 + (c % 64)>>
                    ELSE <<224 + (c \div 4096), 128 + ((c \div 64) % 64), 128 + (c % 64)>>
         IN  enc \o BufferFrom(Tail(text))

(***************************************************************************)
(* The remote host: the nodes of its file tree, named by canonical path.   *)
(***************************************************************************)
RootPath == <<>>
DPath == <<"d">>
DFPath == <<"d", Slash, "f">>
DEPath == <<"d", Slash, "e">>
GPath == <<"g">>
DFXPath == <<"d", Slash, "f", Slash, "x">>     \* a path through the file d/f
DSlashFPath == <<"d", Slash, Slash, "f">>      \* d/f written with an empty segment
Nodes == {DPath, DFPath, DEPath, GPath}

Home == <<"h", "o", "m", "e">>
directoryMime == "inode/directory"
fileMime == "text/plain"

\* The last segment and the containing directory of a node of the remote tree.
NodeName(n) == LET parts == Split(n) IN parts[Len(parts)]
NodeParent(n) == IF IndexOf(n, <<Slash>>) = -1 THEN RootPath ELSE Dirname(n)

\* The path string the remote reports for a node in a listing.
RawPath(n) == <<Slash>> \o Home \o <<Slash>> \o n

\* A request path names a node (a trailing separator is ignored by the host).
StripSlash(s) == IF EndsWith(s, Slash) THEN SubSeq(s, 1, Len(s) - 1) ELSE s

NoTag == 0
\* A host identifier, as the segments of its path: the identifiers of the
\* sites A and C of the tree, that of a site B the tree does not know, and
\* one without resource groups.
SiteId(name) == <<"subscriptions", "s", "resourceGroups", "g", "providers",
                  "Microsoft.Web", "sites", name>>
SiteA == SiteId("A")
SiteC == SiteId("C")
UnknownSite == SiteId("B")
MalformedSite == <<"subscriptions", "s", "sites", "A">>
Sites == {SiteA, SiteC}
EntryPaths == {RootPath, DPath, DFPath, DEPath, GPath}
Uris == [site : Sites, path : EntryPaths]
Uri(path) == [site |-> SiteA, path |-> path]

\* The addresses each operation is tried on.
StatUris == {Uri(DFPath), Uri(DEPath)}
ReadDirectoryUris == {Uri(DPath), Uri(DFPath)}
ReadFileUris == {Uri(DFPath)}
WriteFileInputs == {<<Uri(DFPath), <<65>>>>, <<Uri(DFPath), <<255>>>>, <<Uri(GPath), <<65>>>>}
CreateDirectoryUris == {Uri(DEPath)}
DeleteInputs == {<<Uri(DFPath), FALSE>>, <<Uri(DPath), FALSE>>, <<Uri(DPath), TRUE>>}
RenameInputs == {<<Uri(DFPath), Uri(GPath)>>}

NoObj == <<-1, <<>>>>
RootObj(site) == <<0, site>>

\* new File(file): the entry's path is what follows 'home' and one separator.
File(file) ==
    [type |-> "File", name |-> file.name,
     entryPath |-> Substring(file.path, IndexOf(file.path, Home) + Len(Home) + 1),
     ref |-> NoObj]

\* new Directory(file): a File of type Directory; ref is the identity of the
\* new object (the listing that created it and its name).
Directory(file, lid) ==
    [File(file) EXCEPT !.type = "Directory", !.ref = <<lid, file.name>>]

NoEntry == [type |-> "none", name |-> <<>>, entryPath |-> <<>>, ref |-> NoObj]
NoKids == [n \in {} |-> NoEntry]

\* The state of a Directory object: _entries (has/kids) and _refreshingTask
\* (the listing awaited, 0 when undefined).  Kept with it for the properties:
\* the listing its entries came from (lid; src, the list the host returned;
\* ver, the host's count of changes when it was taken), the number of listing calls issued for it, whether one of them
\* failed and whether one was issued by a forced refresh.
NewDirState(entryPath) ==
    [entryPath |-> entryPath, has |-> FALSE, lid |-> 0, kids |-> NoKids, task |-> 0,
     src |-> {}, ver |-> 0, issued |-> 0, failed |-> FALSE, forced |-> FALSE]

\* actuallyRefreshEntries, after the response: the map built from the list.
BuildEntries(files, lid) ==
    [n \in {f.name : f \in files} |->
        LET file == CHOOSE f \in files : f.name = n
        IN  IF file.mime = directoryMime THEN Directory(file, lid) ELSE File(file)]

(***************************************************************************)
(* The tree view of the explorer: a folder node (FolderTreeItem), the      *)
(* lists the remote file API returns for it and the nodes made from them.  *)
(***************************************************************************)
Backslash == "\\"
xmlMime == "text/xml"

\* The strings the code names as a whole; each is kept as one unit of a
\* name or a label.
TracePattern == "LogFiles-kudu-trace_pending.xml"
openInFileExplorerString == <<"Open in File Explorer...">>
LogStreamLabel == <<"Connect to Log Stream...">>

\* The paths the remote file API reports: under /home on a Linux host, with
\* a drive and backslashes on a Windows host, and a path outside 'home'.
PosixRaw(name) == RawPath(DPath \o <<Slash>> \o name)
WindowsRaw(name) == <<"D", ":", Backslash>> \o Home \o <<Backslash>> \o DPath \o <<Backslash>> \o name
OutsideRaw(name) == <<Slash, "s", "i", "t", "e", Slash>> \o name

\* The kuduFile records a listing may hold.
KuduFiles ==
    { [mime |-> fileMime, name |-> <<"b">>, path |-> PosixRaw(<<"b">>)],
      [mime |-> fileMime, name |-> <<"A">>, path |-> WindowsRaw(<<"A">>)],
      [mime |-> directoryMime, name |-> <<"a">>, path |-> PosixRaw(<<"a">>)],
      [mime |-> xmlMime, name |-> <<TracePattern>>, path |-> PosixRaw(<<TracePattern>>)],
      [mime |-> fileMime, name |-> <<"c">>, path |-> OutsideRaw(<<"c">>)],
      [mime |-> fileMime, name |-> openInFileExplorerString,
       path |-> PosixRaw(openInFileExplorerString)] }

\* The bodies of the listing responses: files of distinct names, in any order.
FileLists ==
    UNION {{l \in [1..n -> KuduFiles] : \A i, j \in 1..n : i # j => l[i].name # l[j].name} :
              n \in 0..MaxListing}

ContextValues == {"folder", "subFolder", "logFolder"}

\* String.prototype.includes
Includes(s, sub) == IndexOf(s, sub) # -1

\* file.path.substring(file.path.indexOf(home) + home.length + 1)
TruncateHome(path) == Substring(path, IndexOf(path, Home) + Len(Home) + 1)

FolderTreeItem(label, folderPath, subcontextValue) ==
    [kind |-> "FolderTreeItem", label |-> label, path |-> folderPath,
     contextValue |-> subcontextValue]
FileTreeItem(label, path) ==
    [kind |-> "FileTreeItem", label |-> label, path |-> path, contextValue |-> "file"]
LogStreamTreeItem ==
    [kind |-> "LogStreamTreeItem", label |-> LogStreamLabel, path |-> <<>>,
     contextValue |-> "logStream"]
GenericTreeItem ==
    [kind |-> "GenericTreeItem", label |-> openInFileExplorerString, path |-> <<>>,
     contextValue |-> "openInFileExplorer"]

\* The children loadMoreChildrenImpl returns for a response: the list without
\* the file Kudu holds open, one node per file, the log stream node in front
\* for a log folder and the action node at the end when the setting is on.
Children(contextValue, setting, fileList) ==
    LET Viewable(file) == ~(file.mime = xmlMime /\ Includes(file.name, <<TracePattern>>))
        filteredList == SelectSeq(fileList, Viewable)
        nodes == [i \in 1..Len(filteredList) |->
                    LET file == filteredList[i]
                    IN  IF file.mime = directoryMime
                        THEN FolderTreeItem(file.name, TruncateHome(file.path), "subFolder")
                        ELSE FileTreeItem(file.name, TruncateHome(file.path))]
        first == IF contextValue = "logFolder" THEN <<LogStreamTreeItem>> ELSE <<>>
        last  == IF setting THEN <<GenericTreeItem>> ELSE <<>>
    IN  first \o nodes \o last

\* String.prototype.localeCompare under the default collation: the letters
\* decide, case apart; between strings of the same letters the first
\* difference of case decides, the lower case first.
Letter(c) ==
    CASE c \in {"a", "A"} -> 1
      [] c \in {"b", "B"} -> 2
      [] c \in {"c", "C", LogStreamLabel[1]} -> 3
      [] c = TracePattern -> 4
      [] c = openInFileExplorerString[1] -> 5
      [] OTHER -> 6
IsLowerCase(c) == c \in {"a", "b", "c"}

RECURSIVE localeCompare(_, _)
localeCompare(s, t) ==
    LET Case(u, v) ==
            LET diff == {i \in 1..Len(u) : u[i] # v[i]}
                i    == CHOOSE k \in diff : \A j \in diff : k <= j
            IN  IF diff = {} THEN 0 ELSE IF IsLowerCase(u[i]) THEN -1 ELSE 1
        RECURSIVE Letters(_, _)
        Letters(u, v) ==
            IF u = <<>> /\ v = <<>> THEN 0
            ELSE IF u = <<>> THEN -1
            ELSE IF v = <<>> THEN 1
            ELSE IF Letter(Head(u)) < Letter(Head(v)) THEN -1
            ELSE IF Letter(Head(u)) > Letter(Head(v)) THEN 1
            ELSE Letters(Tail(u), Tail(v))
    IN  IF Letters(s, t) # 0 THEN Letters(s, t) ELSE Case(s, t)

\* FolderTreeItem.compareChildrenImpl
compareChildrenImpl(ti1, ti2) ==
    IF ti1.label = openInFileExplorerString THEN -1
    ELSE IF ti2.label = openInFileExplorerString THEN 1
    ELSE localeCompare(ti1.label, ti2.label)

VARIABLES
    readonly,   \* AppServiceFS._readonly
    etags,      \* AppServiceFS._etags: uri -> tag (NoTag when not set)
    roots,      \* AppServiceFS._roots: site -> root Directory object
    dirs,       \* the Directory objects: object -> its state
    tasks,      \* the remote listing calls in flight: listing -> request
    nlst,       \* the number of remote listing calls issued so far
    remote,     \* the remote host's nodes
    version,    \* the remote host's count of changes; a file's tag is the
                \* count at its last write
    procs,      \* the filesystem operations in flight, one per caller
    opsLeft,    \* operations that may still start
    extLeft,    \* external modifications that may still happen
    failLeft    \* remote calls that may still fail for reasons of their own

VARIABLES
    proxy,      \* the DebugProxy object: _server, _wsclient, _wsconnection (TRUE
                \* when the reference is set), _keepAlive, _openSockets
    listener,   \* the net.Server made by the constructor
    client,     \* the websocket client made by startProxy
    connection, \* the websocket connection handed to the 'connect' handler
    sockets,    \* the local sockets, by id
    emitted,    \* the events the DebugProxy has emitted, in order
    received,   \* the payloads of the upstream messages received, in order
    chunks,     \* the chunks received from local sockets, in order
    calls       \* the startProxy() and dispose() calls made by the owner

VARIABLES
    explorer,    \* the folder node of the tree view last expanded: its context
                 \* value, the setting read, the list the host returned and
                 \* the children and entries made from it
    remoteDebug, \* the startRemoteDebug command: where it stands, its promise
                 \* for the tunnel, its calls and its termination listener
    sessions     \* vscode.debug: the debug sessions, by name

fsVars == <<readonly, etags, roots, dirs, tasks, nlst, remote, version, procs, opsLeft, extLeft,
            failLeft>>
proxyVars == <<proxy, listener, client, connection, sockets, emitted, received, chunks, calls>>
editorVars == <<explorer, remoteDebug, sessions>>
vars == <<fsVars, proxyVars, editorVars>>

NoTask == [dir |-> NoObj, path |-> <<>>, st |-> "none", files |-> {}, ver |-> 0]
NoCalls == [resolve |-> 0, list |-> 0, get |-> 0, put |-> 0, del |-> 0]
NoReq == [call |-> "none", path |-> <<>>, ifMatch |-> NoTag, data |-> <<>>,
          st |-> "none", etag |-> NoTag, rdata |-> <<>>]

\* What a caller last wrote (a record kept for the write-then-read property).
NoWrite == [valid |-> FALSE, uri |-> [site |-> <<>>, path |-> <<>>], content |-> <<>>, tag |-> NoTag]

\* A caller with no operation started.
IdleProc ==
    [pc |-> "idle", kind |-> "none", uri |-> [site |-> <<>>, path |-> <<>>],
     content |-> <<>>, phase |-> "none", entry |-> NoEntry, todo |-> <<>>,
     await |-> 0, why |-> "none", rq |-> NoReq,
     outcome |-> "none", resEntry |-> NoEntry, resList |-> {}, resData |-> <<>>,
     calls |-> NoCalls, mutOk |-> FALSE, mutAt |-> 0, parent |-> NoObj,
     recursive |-> FALSE, wr |-> NoWrite, preList |-> FALSE, seen |-> <<NoObj, 0>>]

(***************************************************************************)
(* The tunnel proxy (DebugProxy) and the objects it drives: the local      *)
(* listener, the websocket client, its connection and the local sockets.   *)
(***************************************************************************)
SocketIds == 1..MaxSockets
Payloads == {<<1>>, <<2>>}
ErrorValues == {"ECONNRESET", "ETIMEDOUT"}
NotStarted == "Proxy server is not started."

StartEvent == [type |-> "start", err |-> "none"]
EndEvent == [type |-> "end", err |-> "none"]
ErrorEvent(err) == [type |-> "error", err |-> err]

\* A socket the listener has not accepted yet.
NoSocket == [state |-> "none", written |-> <<>>, ended |-> FALSE, error |-> "none"]

\* The state after construction: the server exists but does not listen, no
\* client, no connection, no socket.
\* No folder expanded and no listing turned into entries yet.
InitExplorer ==
    explorer = [contextValue |-> "folder", setting |-> FALSE, loaded |-> FALSE,
                fileList |-> <<>>, children |-> <<>>,
                refreshed |-> FALSE, response |-> <<>>, entries |-> NoKids]

\* The debug sessions vscode.debug knows by name: the one startRemoteDebug
\* names after its sessionId and one of another configuration.
sessionId == "sessionId"
otherSession == "other"
SessionNames == {sessionId, otherSession}

\* startRemoteDebug not called yet: no listener of the proxy, no session.
\* heard counts the events of the proxy its listeners have been called for.
InitDebug ==
    /\ remoteDebug = [pc |-> "idle", promise |-> "pending", err |-> "none", heard |-> 0,
                      attachCalls |-> 0, disposeCalls |-> 0, listener |-> "none"]
    /\ sessions = [name \in SessionNames |-> "none"]

InitProxy ==
    /\ proxy = [server |-> TRUE, wsclient |-> FALSE, wsconnection |-> FALSE,
                keepAlive |-> TRUE, openSockets |-> <<>>]
    /\ listener = [state |-> "created", listenCalls |-> 0, closeCalls |-> 0]
    /\ client = [state |-> "none", created |-> 0, connectCalls |-> 0, abortCalls |-> 0,
                 error |-> "none"]
    /\ connection = [state |-> "none", closeCalls |-> 0, sent |-> <<>>, error |-> "none"]
    /\ sockets = [s \in SocketIds |-> NoSocket]
    /\ emitted = <<>>
    /\ received = <<>>
    /\ chunks = <<>>
    /\ calls = [start |-> 0, dispose |-> 0]

Init ==
    /\ InitProxy
    /\ InitExplorer
    /\ InitDebug
    /\ readonly \in BOOLEAN
    /\ etags = [u \in Uris |-> NoTag]
    /\ roots = [s \in Sites |-> NoObj]
    /\ dirs = [o \in {} |-> NewDirState(<<>>)]
    /\ tasks = [l \in {} |-> NoTask]
    /\ nlst = 0
    /\ remote = [n \in Nodes |->
                    IF n = DPath THEN [kind |-> "dir", tag |-> NoTag, data |-> <<>>]
                    ELSE IF n = DFPath THEN [kind |-> "file", tag |-> 1, data |-> <<66>>]
                    ELSE [kind |-> "none", tag |-> NoTag, data |-> <<>>]]
    /\ version = 1
    /\ procs = [p \in Callers |-> IdleProc]
    /\ opsLeft = MaxOps
    /\ extLeft = MaxExternal
    /\ failLeft = MaxFailures


(***************************************************************************)
(* Helpers of the operations.                                              *)
(***************************************************************************)
Mutating == {"writeFile", "createDirectory", "delete"}

\* A new operation is taken by the first caller that is free: callers are
\* interchangeable, which one carries an operation makes no difference.
Free(p) == procs[p].pc \in {"idle", "done"}

\* No caller has a turn of lookup's loop left to run.  The turns of the loop
\* are separated by awaits of promises that are already settled, so they run
\* as microtasks, before the next response or call is delivered.
Quiet == \A q \in Callers : procs[q].pc # "lookup"

CanStart(p) == Quiet /\ Free(p) /\ opsLeft > 0 /\ \A q \in Callers : q < p => ~Free(q)

\* The caller's record at the start of an operation.  The record of the last
\* write is kept only when a readFile of the same address follows a writeFile
\* that succeeded.
NewOp(p, kind, uri, content) ==
    LET old == procs[p]
        keep == /\ kind = "readFile" /\ old.kind = "writeFile"
                /\ old.outcome = "ok" /\ old.uri = uri
    IN  [IdleProc EXCEPT !.kind = kind, !.uri = uri, !.content = content,
                         !.wr = IF keep THEN old.wr ELSE NoWrite]

\* The operation ends: its promise resolves ("ok") or rejects with an error.
Finish(rec, outcome) ==
    [rec EXCEPT !.pc = "done", !.outcome = outcome, !.phase = "none",
                !.entry = NoEntry, !.todo = <<>>, !.await = 0, !.why = "none",
                !.rq = NoReq]

\* parseAppServiceUri: the host identifier must have the resource-identifier
\* shape and ext.tree.findNode must find its node.
HasResourceIdShape(site) ==
    /\ Len(site) = 8
    /\ site[1] = "subscriptions" /\ site[2] # ""
    /\ site[3] = "resourceGroups" /\ site[4] # ""
    /\ site[5] = "providers" /\ site[6] = "Microsoft.Web"
    /\ site[7] = "sites" /\ site[8] # ""
ResourceIds == {site \in {SiteA, SiteC, UnknownSite, MalformedSite} : HasResourceIdShape(site)}
KnownSites == Sites

parseAppServiceUri(uri) ==
    IF uri.site \notin ResourceIds THEN [err |-> "FileNotFound", site |-> <<>>, entryPath |-> <<>>]
    ELSE IF uri.site \notin KnownSites THEN [err |-> "Unavailable", site |-> <<>>, entryPath |-> <<>>]
    ELSE [err |-> "none", site |-> uri.site, entryPath |-> uri.path]

\* The record after the await of parseAppServiceUri (one resolution lookup).
Resolved(rec) == [rec EXCEPT !.calls.resolve = @ + 1]

\* lookup without its test of empty parts.
Parts_withEmpty(path) == Split(path)

\* lookup: the non-empty parts of entryPath.split('/').
Parts(path) == SelectSeq(Split(path), LAMBDA part : part # <<>>)

RootFile == [name |-> <<"r", "o", "o", "t">>, mime |-> directoryMime, path |-> <<>>]
RootEntry(site) == [Directory(RootFile, 0) EXCEPT !.ref = RootObj(site)]

\* lookup making a new root Directory at every call.
LookupStart_newRoot(p, rec, site, path, phase) ==
    LET made == Cardinality({o \in DOMAIN dirs : o[1] <= 0 /\ o[2] = site})
        root == <<0 - made, site>>
    IN  /\ roots' = [roots EXCEPT ![site] = root]
        /\ dirs' = (root :> NewDirState(RootEntry(site).entryPath)) @@ dirs
        /\ procs' = [procs EXCEPT ![p] =
                        [rec EXCEPT !.pc = "lookup", !.phase = phase,
                                    !.entry = [RootEntry(site) EXCEPT !.ref = root],
                                    !.todo = Parts(path), !.rq = NoReq]]

\* lookup, up to its loop: the root of the site is created on first use.
LookupStart(p, rec, site, path, phase) ==
    /\ roots' = IF roots[site] = NoObj THEN [roots EXCEPT ![site] = RootObj(site)] ELSE roots
    /\ dirs' = IF roots[site] = NoObj
               THEN (RootObj(site) :> NewDirState(RootEntry(site).entryPath)) @@ dirs
               ELSE dirs
    /\ procs' = [procs EXCEPT ![p] =
                    [rec EXCEPT !.pc = "lookup", !.phase = phase,
                                !.entry = RootEntry(site), !.todo = Parts(path),
                                !.rq = NoReq]]

\* A request to the remote file API, as sent.
Request(call, path, ifMatch, data) ==
    [call |-> call, path |-> path, ifMatch |-> ifMatch, data |-> data,
     st |-> "sent", etag |-> NoTag, rdata |-> <<>>]

\* The operation is a mutation whose remote call has not succeeded yet and d
\* is the directory that contains its target.
ListsParentEarly(rec, d) ==
    rec.kind \in Mutating /\ ~rec.mutOk /\ dirs[d].entryPath = NodeParent(rec.uri.path)

\* refreshEntries without the test of _refreshingTask: every call sends its
\* own listing request.
refreshEntries_nojoin(p, rec, d, why) ==
    LET lid == nlst + 1
    IN  /\ tasks' = (lid :> [dir |-> d, path |-> dirs[d].entryPath, st |-> "sent",
                             files |-> {}, ver |-> 0]) @@ tasks
        /\ nlst' = lid
        /\ dirs' = [dirs EXCEPT ![d].task = lid, ![d].issued = @ + 1,
                                ![d].forced = @ \/ (why = "force")]
        /\ procs' = [procs EXCEPT ![p] =
                        [rec EXCEPT !.pc = "refreshing", !.await = lid, !.why = why,
                                    !.calls.list = @ + 1,
                                    !.preList = @ \/ ListsParentEarly(rec, d)]]

\* Directory.refreshEntries, up to its await: join the refresh in flight, or
\* start one (actuallyRefreshEntries sends the listing request).
refreshEntries(p, rec, d, why) ==
    IF dirs[d].task # 0
    THEN /\ procs' = [procs EXCEPT ![p] =
                        [rec EXCEPT !.pc = "refreshing", !.await = dirs[d].task, !.why = why]]
         /\ UNCHANGED <<dirs, tasks, nlst>>
    ELSE LET lid == nlst + 1
         IN  /\ tasks' = (lid :> [dir |-> d, path |-> dirs[d].entryPath, st |-> "sent",
                                  files |-> {}, ver |-> 0]) @@ tasks
             /\ nlst' = lid
             /\ dirs' = [dirs EXCEPT ![d].task = lid, ![d].issued = @ + 1,
                                     ![d].forced = @ \/ (why = "force")]
             /\ procs' = [procs EXCEPT ![p] =
                            [rec EXCEPT !.pc = "refreshing", !.await = lid, !.why = why,
                                        !.calls.list = @ + 1,
                                        !.preList = @ \/ ListsParentEarly(rec, d)]]

\* The caller's record when getEntry has returned child for the next part:
\* the loop goes on with the child; after the last part stat returns it and
\* delete sends its first request (getFile for a file, deleteItem otherwise).
Arrived(rec, child) ==
    LET next == [rec EXCEPT !.pc = "lookup", !.entry = child, !.todo = Tail(rec.todo),
                            !.await = 0, !.why = "none"]
    IN  IF next.todo # <<>> \/ next.phase = "parent" \/ next.kind = "readDirectory"
        THEN next
        ELSE IF next.kind = "stat"
        THEN [Finish(next, "ok") EXCEPT !.resEntry = child]
        ELSE IF child.type = "File"
        THEN [next EXCEPT !.pc = "getFile", !.entry = NoEntry,
                          !.rq = Request("get", rec.uri.path, NoTag, <<>>),
                          !.calls.get = @ + 1]
        ELSE [next EXCEPT !.pc = "deleteItem", !.entry = NoEntry,
                          !.rq = Request("delete", rec.uri.path, NoTag, <<>>),
                          !.calls.del = @ + 1]

\* readDirectory reporting every entry as a file.
Pairs_allFiles(kids) == {<<n, "File">> : n \in DOMAIN kids}

\* readDirectory's result: one (name, type) pair per entry of the map.
Pairs(kids) == {<<n, kids[n].type>> : n \in DOMAIN kids}

(***************************************************************************)
(* The operations of AppServiceFS, each up to its first remote call.       *)
(***************************************************************************)
stat(p, uri) ==
    /\ CanStart(p)
    /\ LET rec == Resolved(NewOp(p, "stat", uri, <<>>))
           parsed == parseAppServiceUri(uri)
       IN  IF parsed.err # "none"
           THEN /\ procs' = [procs EXCEPT ![p] = Finish(rec, parsed.err)]
                /\ UNCHANGED <<roots, dirs>>
           ELSE LookupStart(p, rec, parsed.site, parsed.entryPath, "target")
    /\ opsLeft' = opsLeft - 1
    /\ UNCHANGED <<editorVars, proxyVars, readonly, etags, tasks, nlst, remote, version, extLeft, failLeft>>

readDirectory(p, uri) ==
    /\ CanStart(p)
    /\ LET rec == Resolved(NewOp(p, "readDirectory", uri, <<>>))
           parsed == parseAppServiceUri(uri)
       IN  IF parsed.err # "none"
           THEN /\ procs' = [procs EXCEPT ![p] = Finish(rec, parsed.err)]
                /\ UNCHANGED <<roots, dirs>>
           ELSE LookupStart(p, rec, parsed.site, parsed.entryPath, "target")
    /\ opsLeft' = opsLeft - 1
    /\ UNCHANGED <<editorVars, proxyVars, readonly, etags, tasks, nlst, remote, version, extLeft, failLeft>>

readFile(p, uri) ==
    /\ CanStart(p)
    /\ LET rec == Resolved(NewOp(p, "readFile", uri, <<>>))
           parsed == parseAppServiceUri(uri)
       IN  procs' = [procs EXCEPT ![p] =
                IF parsed.err # "none" THEN Finish(rec, parsed.err)
                ELSE [rec EXCEPT !.pc = "getFile",
                                 !.rq = Request("get", parsed.entryPath, NoTag, <<>>),
                                 !.calls.get = @ + 1]]
    /\ opsLeft' = opsLeft - 1
    /\ UNCHANGED <<editorVars, proxyVars, readonly, etags, roots, dirs, tasks, nlst, remote, version, extLeft, failLeft>>

\* writeFile, sending the write without the recorded tag.
writeFile_unconditional(p, uri, content) ==
    /\ CanStart(p)
    /\ LET new == NewOp(p, "writeFile", uri, content)
           rec == Resolved(new)
           parsed == parseAppServiceUri(uri)
       IN  procs' = [procs EXCEPT ![p] =
                IF readonly THEN Finish(new, "NoPermissions")
                ELSE IF parsed.err # "none" THEN Finish(rec, parsed.err)
                ELSE [rec EXCEPT !.pc = "putFile",
                                 !.rq = Request("put", parsed.entryPath, NoTag,
                                                BufferToString(content)),
                                 !.calls.put = @ + 1]]
    /\ opsLeft' = opsLeft - 1
    /\ UNCHANGED <<editorVars, proxyVars, readonly, etags, roots, dirs, tasks, nlst, remote, version, extLeft, failLeft>>

writeFile(p, uri, content) ==
    /\ CanStart(p)
    /\ LET new == NewOp(p, "writeFile", uri, content)
           rec == Resolved(new)
           parsed == parseAppServiceUri(uri)
       IN  procs' = [procs EXCEPT ![p] =
                IF readonly THEN Finish(new, "NoPermissions")
                ELSE IF parsed.err # "none" THEN Finish(rec, parsed.err)
                ELSE [rec EXCEPT !.pc = "putFile",
                                 !.rq = Request("put", parsed.entryPath, etags[uri],
                                                BufferToString(content)),
                                 !.calls.put = @ + 1]]
    /\ opsLeft' = opsLeft - 1
    /\ UNCHANGED <<editorVars, proxyVars, readonly, etags, roots, dirs, tasks, nlst, remote, version, extLeft, failLeft>>

\* createDirectory, testing _readonly only after the address is resolved.
createDirectory_lateCheck(p, uri) ==
    /\ CanStart(p)
    /\ LET rec == Resolved(NewOp(p, "createDirectory", uri, <<>>))
           parsed == parseAppServiceUri(uri)
           path == IF EndsWith(parsed.entryPath, Slash) THEN parsed.entryPath
                   ELSE parsed.entryPath \o <<Slash>>
       IN  procs' = [procs EXCEPT ![p] =
                IF parsed.err # "none" THEN Finish(rec, parsed.err)
                ELSE IF readonly THEN Finish(rec, "NoPermissions")
                ELSE [rec EXCEPT !.pc = "putFile",
                                 !.rq = Request("put", path, NoTag, <<>>),
                                 !.calls.put = @ + 1]]
    /\ opsLeft' = opsLeft - 1
    /\ UNCHANGED <<editorVars, proxyVars, readonly, etags, roots, dirs, tasks, nlst, remote, version, extLeft, failLeft>>

createDirectory(p, uri) ==
    /\ CanStart(p)
    /\ LET new == NewOp(p, "createDirectory", uri, <<>>)
           rec == Resolved(new)
           parsed == parseAppServiceUri(uri)
           path == IF EndsWith(parsed.entryPath, Slash) THEN parsed.entryPath
                   ELSE parsed.entryPath \o <<Slash>>
       IN  procs' = [procs EXCEPT ![p] =
                IF readonly THEN Finish(new, "NoPermissions")
                ELSE IF parsed.err # "none" THEN Finish(rec, parsed.err)
                ELSE [rec EXCEPT !.pc = "putFile",
                                 !.rq = Request("put", path, NoTag, <<>>),
                                 !.calls.put = @ + 1]]
    /\ opsLeft' = opsLeft - 1
    /\ UNCHANGED <<editorVars, proxyVars, readonly, etags, roots, dirs, tasks, nlst, remote, version, extLeft, failLeft>>

delete(p, uri, recursive) ==
    /\ CanStart(p)
    /\ LET new == [NewOp(p, "delete", uri, <<>>) EXCEPT !.recursive = recursive]
           rec == Resolved(new)
           parsed == parseAppServiceUri(uri)
       IN  IF readonly \/ parsed.err # "none"
           THEN /\ procs' = [procs EXCEPT ![p] =
                        IF readonly THEN Finish(new, "NoPermissions")
                        ELSE Finish(rec, parsed.err)]
                /\ UNCHANGED <<roots, dirs>>
           ELSE LookupStart(p, rec, parsed.site, parsed.entryPath, "target")
    /\ opsLeft' = opsLeft - 1
    /\ UNCHANGED <<editorVars, proxyVars, readonly, etags, tasks, nlst, remote, version, extLeft, failLeft>>

\* rename, without the test of _readonly.
rename_noCheck(p, oldUri, newUri) ==
    /\ CanStart(p)
    /\ procs' = [procs EXCEPT ![p] =
                    Finish(NewOp(p, "rename", oldUri, <<>>), "NotImplemented")]
    /\ opsLeft' = opsLeft - 1
    /\ UNCHANGED <<editorVars, proxyVars, readonly, etags, roots, dirs, tasks, nlst, remote, version, extLeft, failLeft>>

rename(p, oldUri, newUri) ==
    /\ CanStart(p)
    /\ LET new == NewOp(p, "rename", oldUri, <<>>)
       IN  procs' = [procs EXCEPT ![p] =
                IF readonly THEN Finish(new, "NoPermissions")
                ELSE Finish(new, "NotImplemented")]
    /\ opsLeft' = opsLeft - 1
    /\ UNCHANGED <<editorVars, proxyVars, readonly, etags, roots, dirs, tasks, nlst, remote, version, extLeft, failLeft>>

(***************************************************************************)
(* lookup's loop and what follows the lookup in each operation.            *)
(***************************************************************************)
\* The caller's record when it has read the cached children of directory e.
Seen(rec, e) ==
    IF e.type = "Directory" THEN [rec EXCEPT !.seen = <<e.ref, dirs[e.ref].lid>>] ELSE rec

\* One turn of the loop of lookup (one call of Directory.getEntry), or, when
\* no part is left, the code that follows the lookup in the operation.
lookup(p) ==
    LET rec == procs[p]
        e == rec.entry
    IN  /\ rec.pc = "lookup"
        /\ IF rec.todo # <<>>
           THEN \* child = await entry.getEntry(kuduClient, part)
                IF e.type = "Directory" /\ ~dirs[e.ref].has
                THEN refreshEntries(p, rec, e.ref, "getEntry")
                ELSE /\ procs' = [procs EXCEPT ![p] =
                            IF e.type = "Directory" /\ Head(rec.todo) \in DOMAIN dirs[e.ref].kids
                            THEN Arrived(Seen(rec, e), dirs[e.ref].kids[Head(rec.todo)])
                            ELSE Finish(Seen(rec, e), "FileNotFound")]
                     /\ UNCHANGED <<dirs, tasks, nlst>>
           ELSE IF rec.phase = "parent"
           THEN \* await parent.refreshEntries(...)
                IF e.type = "Directory"
                THEN refreshEntries(p, [rec EXCEPT !.parent = e.ref], e.ref, "force")
                ELSE /\ procs' = [procs EXCEPT ![p] = Finish(rec, "TypeError")]
                     /\ UNCHANGED <<dirs, tasks, nlst>>
           ELSE IF rec.kind = "stat"
           THEN /\ procs' = [procs EXCEPT ![p] = [Finish(rec, "ok") EXCEPT !.resEntry = e]]
                /\ UNCHANGED <<dirs, tasks, nlst>>
           ELSE IF rec.kind = "readDirectory"
           THEN IF e.type = "Directory" /\ ~dirs[e.ref].has
                THEN refreshEntries(p, rec, e.ref, "getEntries")
                ELSE /\ procs' = [procs EXCEPT ![p] =
                            IF e.type = "Directory"
                            THEN [Finish(Seen(rec, e), "ok") EXCEPT !.resList = Pairs(dirs[e.ref].kids)]
                            ELSE Finish(rec, "FileNotADirectory")]
                     /\ UNCHANGED <<dirs, tasks, nlst>>
           ELSE \* delete: a file's tag is fetched first
                /\ procs' = [procs EXCEPT ![p] =
                        IF e.type = "File"
                        THEN [rec EXCEPT !.pc = "getFile", !.entry = NoEntry,
                                         !.rq = Request("get", rec.uri.path, NoTag, <<>>),
                                         !.calls.get = @ + 1]
                        ELSE [rec EXCEPT !.pc = "deleteItem", !.entry = NoEntry,
                                         !.rq = Request("delete", rec.uri.path, NoTag, <<>>),
                                         !.calls.del = @ + 1]]
                /\ UNCHANGED <<dirs, tasks, nlst>>
        /\ UNCHANGED <<editorVars, proxyVars, readonly, etags, roots, remote, version, opsLeft, extLeft, failLeft>>

(***************************************************************************)
(* The remote host serves the requests it has received.                    *)
(***************************************************************************)
IsRemoteDir(path) == path = RootPath \/ (path \in Nodes /\ remote[path].kind = "dir")

\* The list the host returns for a directory: its immediate children.
RemoteFiles(path) ==
    {[name |-> NodeName(n),
      mime |-> IF remote[n].kind = "dir" THEN directoryMime ELSE fileMime,
      path |-> RawPath(n)] : n \in {m \in Nodes : NodeParent(m) = path /\ remote[m].kind # "none"}}

\* A request that changes the remote tree is waiting to be served.
MutationPending ==
    \E p \in Callers : procs[p].rq.st = "sent" /\ procs[p].rq.call \in {"put", "delete"}

\* vfs.getItemWithHttpOperationResponse(entryPath) is served while its
\* response is still on its way.  (When the listing is served matters only
\* relative to the changes of the remote tree; a listing not served here is
\* served when its response arrives.)
RemoteList(lid) ==
    /\ Quiet
    /\ lid \in DOMAIN tasks
    /\ tasks[lid].st = "sent"
    /\ MutationPending
    /\ IsRemoteDir(StripSlash(tasks[lid].path))
    /\ tasks' = [tasks EXCEPT ![lid].st = "served", ![lid].ver = version,
                              ![lid].files = RemoteFiles(StripSlash(tasks[lid].path))]
    /\ UNCHANGED <<editorVars, proxyVars, readonly, etags, roots, dirs, nlst, remote, version, procs, opsLeft, extLeft, failLeft>>

\* AfterRefresh, a failed listing being answered as a completed refresh.
AfterRefresh_swallowed(rec, ok, result, d, lid) ==
    IF ~ok THEN Finish(rec, "ok")
    ELSE IF rec.why = "getEntry"
    THEN IF Head(rec.todo) \in DOMAIN result
         THEN Arrived([rec EXCEPT !.seen = <<d, lid>>], result[Head(rec.todo)])
         ELSE Finish([rec EXCEPT !.seen = <<d, lid>>], "FileNotFound")
    ELSE IF rec.why = "getEntries"
    THEN [Finish([rec EXCEPT !.seen = <<d, lid>>], "ok") EXCEPT !.resList = Pairs(result)]
    ELSE Finish([rec EXCEPT !.seen = <<d, lid>>], "ok")

\* The caller's record when the refresh it awaits has completed.
AfterRefresh(rec, ok, result, d, lid) ==
    IF ~ok THEN Finish(rec, "ListFailed")
    ELSE IF rec.why = "getEntry"
    THEN IF Head(rec.todo) \in DOMAIN result
         THEN Arrived([rec EXCEPT !.seen = <<d, lid>>], result[Head(rec.todo)])
         ELSE Finish([rec EXCEPT !.seen = <<d, lid>>], "FileNotFound")
    ELSE IF rec.why = "getEntries"
    THEN [Finish([rec EXCEPT !.seen = <<d, lid>>], "ok") EXCEPT !.resList = Pairs(result)]
    ELSE Finish([rec EXCEPT !.seen = <<d, lid>>], "ok")

\* The assignment of refreshEntries, filling the existing map instead of
\* replacing it.
SetEntries_merge(dir, result) ==
    [dir EXCEPT !.has = TRUE, !.kids = result @@ dir.kids]

\* this._entries = await this._refreshingTask: the map of children is
\* replaced by the one built from the listing.
SetEntries(dir, result) ==
    [dir EXCEPT !.has = TRUE, !.kids = result]

\* Refreshed, clearing _refreshingTask only when the listing succeeded.
Refreshed_keepTask(dir, ok, result) ==
    IF ok THEN [SetEntries(dir, result) EXCEPT !.task = 0]
    ELSE dir

\* The Directory object once the refresh it started has completed: _entries
\* is replaced on success, _refreshingTask is cleared in both cases (finally).
Refreshed(dir, ok, result) ==
    IF ok THEN [SetEntries(dir, result) EXCEPT !.task = 0]
    ELSE [dir EXCEPT !.task = 0]

\* The remote calls answer or fail.
MayFail == IF failLeft > 0 THEN BOOLEAN ELSE {TRUE}

\* The listing response arrives: refreshEntries resumes in the caller that
\* started the refresh and in every caller that joined it.
RefreshDone(lid) ==
    /\ Quiet
    /\ lid \in DOMAIN tasks
    /\ \E ok \in MayFail :
       /\ failLeft' = IF ok THEN failLeft ELSE failLeft - 1
       /\
         LET t == tasks[lid]
             path == StripSlash(t.path)
             good == IF t.st = "served" THEN TRUE ELSE ok /\ IsRemoteDir(path)
             files == IF t.st = "served" THEN t.files
                      ELSE IF good THEN RemoteFiles(path) ELSE {}
             result == BuildEntries(files, lid)
             subdirs == {n \in DOMAIN result : result[n].type = "Directory"}
             fresh == [o \in {result[n].ref : n \in subdirs} |->
                          NewDirState(result[CHOOSE n \in subdirs : result[n].ref = o].entryPath)]
         IN  /\ (t.st = "served" => ok)
             /\ tasks' = [l \in DOMAIN tasks \ {lid} |-> tasks[l]]
             /\ dirs' = IF good
                        THEN fresh @@ [dirs EXCEPT ![t.dir] =
                                Refreshed([@ EXCEPT !.lid = lid, !.src = files,
                                                    !.ver = IF t.st = "served" THEN t.ver
                                                            ELSE version],
                                          TRUE, result)]
                        ELSE [dirs EXCEPT ![t.dir] =
                                Refreshed([@ EXCEPT !.failed = TRUE], FALSE, result)]
             /\ procs' = [q \in Callers |->
                            IF procs[q].pc = "refreshing" /\ procs[q].await = lid
                            THEN AfterRefresh(procs[q], good, result, t.dir, lid)
                            ELSE procs[q]]
    /\ UNCHANGED <<editorVars, proxyVars, readonly, etags, roots, nlst, remote, version, opsLeft, extLeft>>

\* a is a proper ancestor directory of node n.
IsAncestor(a, n) == Len(a) < Len(n) /\ SubSeq(n, 1, Len(a) + 1) = a \o <<Slash>>

NoNode == [kind |-> "none", tag |-> NoTag, data |-> <<>>]
DirNode == [kind |-> "dir", tag |-> NoTag, data |-> <<>>]

\* The callers' records once the nodes touched have been modified, or their
\* tag recorded, by someone other than caller p: what another caller last
\* wrote there is no longer the last thing that happened to the file.
Overwritten(ps, touched, p) ==
    [q \in Callers |->
        IF q # p /\ ps[q].wr.valid /\ ps[q].wr.uri.path \in touched
        THEN [ps[q] EXCEPT !.wr = NoWrite] ELSE ps[q]]

\* getFile is served: the content and the current tag of a file.
RemoteGetFile(p) ==
    /\ Quiet
    /\ procs[p].pc = "getFile"
    /\ procs[p].rq.st = "sent"
    /\ \E ok \in MayFail :
       /\ failLeft' = IF ok THEN failLeft ELSE failLeft - 1
       /\
         LET n == procs[p].rq.path
         IN  procs' = [procs EXCEPT ![p].rq =
                        IF ok /\ n \in Nodes /\ remote[n].kind = "file"
                        THEN [@ EXCEPT !.st = "ok", !.etag = remote[n].tag, !.rdata = remote[n].data]
                        ELSE [@ EXCEPT !.st = "fail"]]
    /\ UNCHANGED <<editorVars, proxyVars, readonly, etags, roots, dirs, tasks, nlst, remote, version, opsLeft, extLeft>>

\* putFile is served.  A path ending with a separator creates a directory;
\* otherwise the file is written unless the request carries a tag that is not
\* the file's current tag.  Missing ancestor directories are created.
RemotePutFile(p) ==
    /\ Quiet
    /\ procs[p].pc = "putFile"
    /\ procs[p].rq.st = "sent"
    /\ \E ok \in MayFail :
       /\ failLeft' = IF ok THEN failLeft ELSE failLeft - 1
       /\
         LET rq == procs[p].rq
             mkdir == EndsWith(rq.path, Slash)
             n == StripSlash(rq.path)
             possible == /\ ok /\ n \in Nodes
                         /\ \A a \in Nodes : IsAncestor(a, n) => remote[a].kind # "file"
                         /\ remote[n].kind # (IF mkdir THEN "file" ELSE "dir")
             stale == ~mkdir /\ rq.ifMatch # NoTag
                      /\ ~(remote[n].kind = "file" /\ remote[n].tag = rq.ifMatch)
             withDirs == [m \in Nodes |-> IF IsAncestor(m, n) THEN DirNode ELSE remote[m]]
         IN  IF ~possible
             THEN /\ procs' = [procs EXCEPT ![p].rq.st = "fail"]
                  /\ UNCHANGED <<remote, version>>
             ELSE IF stale
             THEN /\ procs' = [procs EXCEPT ![p].rq.st = "stale"]
                  /\ UNCHANGED <<remote, version>>
             ELSE IF mkdir
             THEN /\ remote' = [withDirs EXCEPT ![n] = DirNode]
                  /\ version' = version + 1
                  /\ procs' = [procs EXCEPT ![p].rq.st = "ok", ![p].mutAt = version + 1]
             ELSE /\ remote' = [withDirs EXCEPT ![n] =
                                    [kind |-> "file", tag |-> version + 1, data |-> rq.data]]
                  /\ version' = version + 1
                  /\ procs' = [Overwritten(procs, {n}, p) EXCEPT
                                  ![p].rq.st = "ok", ![p].rq.etag = version + 1,
                                  ![p].mutAt = version + 1,
                                  ![p].wr = [valid |-> TRUE, uri |-> procs[p].uri,
                                             content |-> procs[p].content, tag |-> version + 1]]
    /\ UNCHANGED <<editorVars, proxyVars, readonly, etags, roots, dirs, tasks, nlst, opsLeft, extLeft>>

\* vfs.deleteItem is served: a file is deleted only under its current tag, a
\* directory with children only when recursive.
RemoteDeleteItem(p) ==
    /\ Quiet
    /\ procs[p].pc = "deleteItem"
    /\ procs[p].rq.st = "sent"
    /\ \E ok \in MayFail :
       /\ failLeft' = IF ok THEN failLeft ELSE failLeft - 1
       /\
         LET rq == procs[p].rq
             n == StripSlash(rq.path)
             below == {m \in Nodes : IsAncestor(n, m) /\ remote[m].kind # "none"}
             possible == /\ ok /\ n \in Nodes /\ remote[n].kind # "none"
                         /\ (remote[n].kind = "dir" => (procs[p].recursive \/ below = {}))
             stale == remote[n].kind = "file" /\ remote[n].tag # rq.ifMatch
         IN  IF ~possible
             THEN /\ procs' = [procs EXCEPT ![p].rq.st = "fail"]
                  /\ UNCHANGED <<remote, version>>
             ELSE IF stale
             THEN /\ procs' = [procs EXCEPT ![p].rq.st = "stale"]
                  /\ UNCHANGED <<remote, version>>
             ELSE /\ remote' = [m \in Nodes |-> IF m \in below \cup {n} THEN NoNode ELSE remote[m]]
                  /\ version' = version + 1
                  /\ procs' = [Overwritten(procs, below \cup {n}, 0) EXCEPT
                                  ![p].rq.st = "ok", ![p].mutAt = version + 1]
    /\ UNCHANGED <<editorVars, proxyVars, readonly, etags, roots, dirs, tasks, nlst, opsLeft, extLeft>>

\* A writer other than this adapter replaces the content of a file.  (The
\* adapter can tell when it happened only relative to its own requests for
\* the file, so it is placed while such a request is waiting to be served.)
ExternalWrite(n) ==
    /\ Quiet
    /\ extLeft > 0
    /\ remote[n].kind = "file"
    /\ \E p \in Callers : procs[p].rq.st = "sent" /\ StripSlash(procs[p].rq.path) = n
    /\ remote' = [remote EXCEPT ![n] = [kind |-> "file", tag |-> version + 1, data |-> <<66>>]]
    /\ version' = version + 1
    /\ procs' = Overwritten(procs, {n}, 0)
    /\ extLeft' = extLeft - 1
    /\ UNCHANGED <<editorVars, proxyVars, readonly, etags, roots, dirs, tasks, nlst, opsLeft, failLeft>>

(***************************************************************************)
(* The operations resume when the response of the remote file API arrives. *)
(***************************************************************************)
Answered(p, kind, pc) ==
    /\ Quiet
    /\ procs[p].kind = kind
    /\ procs[p].pc = pc
    /\ procs[p].rq.st \in {"ok", "stale", "fail"}

\* The error an operation rejects with when its remote call was refused.
RemoteError(rq) == IF rq.st = "stale" THEN "StaleVersion" ELSE "RemoteError"

\* readFile after getFile: the tag is recorded, the bytes returned.
readFileDone(p) ==
    /\ Answered(p, "readFile", "getFile")
    /\ LET rec == procs[p]
       IN  IF rec.rq.st = "ok"
           THEN /\ etags' = [etags EXCEPT ![rec.uri] = rec.rq.etag]
                /\ procs' = [Overwritten(procs, {rec.uri.path}, p) EXCEPT ![p] =
                                [Finish(rec, "ok") EXCEPT !.resData = BufferFrom(rec.rq.rdata)]]
           ELSE /\ procs' = [procs EXCEPT ![p] = Finish(rec, RemoteError(rec.rq))]
                /\ UNCHANGED etags
    /\ UNCHANGED <<editorVars, proxyVars, readonly, roots, dirs, tasks, nlst, remote, version, opsLeft, extLeft, failLeft>>

\* writeFileDone, refreshing the parent also when putFile was refused.
writeFileDone_refreshAnyway(p) ==
    /\ Answered(p, "writeFile", "putFile")
    /\ LET rec == procs[p]
       IN  /\ etags' = IF rec.rq.st = "ok" THEN [etags EXCEPT ![rec.uri] = rec.rq.etag]
                       ELSE etags
           /\ LookupStart(p, [rec EXCEPT !.mutOk = (rec.rq.st = "ok")], rec.uri.site,
                          Dirname(rec.uri.path), "parent")
    /\ UNCHANGED <<editorVars, proxyVars, readonly, tasks, nlst, remote, version, opsLeft, extLeft, failLeft>>

\* writeFile after putFile: the new tag is recorded, then the parent is
\* looked up to be refreshed.
writeFileDone(p) ==
    /\ Answered(p, "writeFile", "putFile")
    /\ LET rec == procs[p]
       IN  IF rec.rq.st = "ok"
           THEN /\ etags' = [etags EXCEPT ![rec.uri] = rec.rq.etag]
                /\ LookupStart(p, [rec EXCEPT !.mutOk = TRUE], rec.uri.site,
                               Dirname(rec.uri.path), "parent")
           ELSE /\ procs' = [procs EXCEPT ![p] = Finish(rec, RemoteError(rec.rq))]
                /\ UNCHANGED <<etags, roots, dirs>>
    /\ UNCHANGED <<editorVars, proxyVars, readonly, tasks, nlst, remote, version, opsLeft, extLeft, failLeft>>

\* createDirectory after putFile: the parent is looked up to be refreshed.
createDirectoryDone(p) ==
    /\ Answered(p, "createDirectory", "putFile")
    /\ LET rec == procs[p]
       IN  IF rec.rq.st = "ok"
           THEN LookupStart(p, [rec EXCEPT !.mutOk = TRUE], rec.uri.site,
                            Dirname(rec.uri.path), "parent")
           ELSE /\ procs' = [procs EXCEPT ![p] = Finish(rec, RemoteError(rec.rq))]
                /\ UNCHANGED <<roots, dirs>>
    /\ UNCHANGED <<editorVars, proxyVars, readonly, etags, tasks, nlst, remote, version, opsLeft, extLeft, failLeft>>

\* delete after getFile, sending the delete without the tag it fetched.
deleteGotFile_noTag(p) ==
    /\ Answered(p, "delete", "getFile")
    /\ LET rec == procs[p]
       IN  procs' = [procs EXCEPT ![p] =
                IF rec.rq.st = "ok"
                THEN [rec EXCEPT !.pc = "deleteItem",
                                 !.rq = Request("delete", rec.uri.path, NoTag, <<>>),
                                 !.calls.del = @ + 1]
                ELSE Finish(rec, RemoteError(rec.rq))]
    /\ UNCHANGED <<editorVars, proxyVars, readonly, etags, roots, dirs, tasks, nlst, remote, version, opsLeft, extLeft, failLeft>>

\* delete after getFile: the delete is sent under the file's tag.
deleteGotFile(p) ==
    /\ Answered(p, "delete", "getFile")
    /\ LET rec == procs[p]
       IN  procs' = [procs EXCEPT ![p] =
                IF rec.rq.st = "ok"
                THEN [rec EXCEPT !.pc = "deleteItem",
                                 !.rq = Request("delete", rec.uri.path, rec.rq.etag, <<>>),
                                 !.calls.del = @ + 1]
                ELSE Finish(rec, RemoteError(rec.rq))]
    /\ UNCHANGED <<editorVars, proxyVars, readonly, etags, roots, dirs, tasks, nlst, remote, version, opsLeft, extLeft, failLeft>>

\* deleteDone, refreshing the parent whether or not deleteItem succeeded.
deleteDone_always(p) ==
    /\ Answered(p, "delete", "deleteItem")
    /\ LET rec == procs[p]
       IN  LookupStart(p, [rec EXCEPT !.mutOk = (rec.rq.st = "ok")], rec.uri.site,
                       Dirname(rec.uri.path), "parent")
    /\ UNCHANGED <<editorVars, proxyVars, readonly, etags, tasks, nlst, remote, version, opsLeft, extLeft, failLeft>>

\* delete after deleteItem: the parent is looked up to be refreshed.
deleteDone(p) ==
    /\ Answered(p, "delete", "deleteItem")
    /\ LET rec == procs[p]
       IN  IF rec.rq.st = "ok"
           THEN LookupStart(p, [rec EXCEPT !.mutOk = TRUE], rec.uri.site,
                            Dirname(rec.uri.path), "parent")
           ELSE /\ procs' = [procs EXCEPT ![p] = Finish(rec, RemoteError(rec.rq))]
                /\ UNCHANGED <<roots, dirs>>
    /\ UNCHANGED <<editorVars, proxyVars, readonly, etags, tasks, nlst, remote, version, opsLeft, extLeft, failLeft>>

\* Every listing in flight is awaited by the caller that started it: the
\* listings are those the callers await.
ListingServed(p) == procs[p].pc = "refreshing" /\ RemoteList(procs[p].await)
ListingAnswered(p) == procs[p].pc = "refreshing" /\ RefreshDone(procs[p].await)

Next ==
    \/ \E p \in Callers, uri \in StatUris : stat(p, uri)
    \/ \E p \in Callers, uri \in ReadDirectoryUris : readDirectory(p, uri)
    \/ \E p \in Callers, uri \in ReadFileUris : readFile(p, uri)
    \/ \E p \in Callers, in \in WriteFileInputs : writeFile(p, in[1], in[2])
    \/ \E p \in Callers, uri \in CreateDirectoryUris : createDirectory(p, uri)
    \/ \E p \in Callers, in \in DeleteInputs : delete(p, in[1], in[2])
    \/ \E p \in Callers, in \in RenameInputs : rename(p, in[1], in[2])
    \/ \E p \in Callers : lookup(p)
    \/ \E p \in Callers : ListingServed(p)
    \/ \E p \in Callers : ListingAnswered(p)
    \/ \E p \in Callers : RemoteGetFile(p)
    \/ \E p \in Callers : RemotePutFile(p)
    \/ \E p \in Callers : RemoteDeleteItem(p)
    \/ \E n \in Nodes : ExternalWrite(n)
    \/ \E p \in Callers : readFileDone(p)
    \/ \E p \in Callers : writeFileDone(p)
    \/ \E p \in Callers : createDirectoryDone(p)
    \/ \E p \in Callers : deleteGotFile(p)
    \/ \E p \in Callers : deleteDone(p)

Spec == Init /\ [][Next]_vars

(***************************************************************************)
(* The cache of directory listings: the operations that walk and list the  *)
(* directories, concurrently with those that change the remote tree and    *)
(* refresh the parent.                                                     *)
(***************************************************************************)
NextCache ==
    \/ \E p \in Callers : stat(p, Uri(DFPath))
    \/ \E p \in Callers : readDirectory(p, Uri(DPath))
    \/ \E p \in Callers : writeFile(p, Uri(DFPath), <<65>>)
    \/ \E p \in Callers : createDirectory(p, Uri(DEPath))
    \/ \E p \in Callers : delete(p, Uri(DFPath), FALSE)
    \/ \E p \in Callers : lookup(p)
    \/ \E p \in Callers : ListingServed(p)
    \/ \E p \in Callers : ListingAnswered(p)
    \/ \E p \in Callers : RemoteGetFile(p)
    \/ \E p \in Callers : RemotePutFile(p)
    \/ \E p \in Callers : RemoteDeleteItem(p)
    \/ \E p \in Callers : writeFileDone(p)
    \/ \E p \in Callers : createDirectoryDone(p)
    \/ \E p \in Callers : deleteGotFile(p)
    \/ \E p \in Callers : deleteDone(p)

SpecCache == Init /\ [][NextCache]_vars

(***************************************************************************)
(* The table of version tags: reads and writes of one file while another   *)
(* writer modifies it, and rename.                                         *)
(***************************************************************************)
NextTags ==
    \/ \E p \in Callers : readFile(p, Uri(DFPath))
    \/ \E p \in Callers : writeFile(p, Uri(DFPath), <<65>>)
    \/ \E p \in Callers, in \in RenameInputs : rename(p, in[1], in[2])
    \/ \E p \in Callers : lookup(p)
    \/ \E p \in Callers : ListingServed(p)
    \/ \E p \in Callers : ListingAnswered(p)
    \/ \E p \in Callers : RemoteGetFile(p)
    \/ \E p \in Callers : RemotePutFile(p)
    \/ \E n \in Nodes : ExternalWrite(n)
    \/ \E p \in Callers : readFileDone(p)
    \/ \E p \in Callers : writeFileDone(p)

SpecTags == Init /\ [][NextTags]_vars

(***************************************************************************)
(* Writing a file and reading it back: contents that are and are not the   *)
(* encoding of a text, the adapter being the only writer.                  *)
(***************************************************************************)
RoundTripContents == {<<65>>, <<255>>}

NextRoundTrip ==
    \/ \E p \in Callers : readFile(p, Uri(DFPath))
    \/ \E p \in Callers, content \in RoundTripContents : writeFile(p, Uri(DFPath), content)
    \/ \E p \in Callers : lookup(p)
    \/ \E p \in Callers : ListingServed(p)
    \/ \E p \in Callers : ListingAnswered(p)
    \/ \E p \in Callers : RemoteGetFile(p)
    \/ \E p \in Callers : RemotePutFile(p)
    \/ \E p \in Callers : readFileDone(p)
    \/ \E p \in Callers : writeFileDone(p)

SpecRoundTrip == Init /\ [][NextRoundTrip]_vars

(***************************************************************************)
(* Path resolution and directory reading: stat and readDirectory on paths  *)
(* that exist, that miss a segment, that pass through a file and that have *)
(* an empty segment, while a directory is created.                         *)
(***************************************************************************)
WalkUris == {Uri(RootPath), Uri(DFPath), Uri(DEPath), Uri(DFXPath), Uri(DSlashFPath)}

NextWalk ==
    \/ \E p \in Callers : \E uri \in WalkUris : stat(p, uri)
    \/ \E p \in Callers : \E uri \in ReadDirectoryUris : readDirectory(p, uri)
    \/ \E p \in Callers : createDirectory(p, Uri(DEPath))
    \/ \E p \in Callers : lookup(p)
    \/ \E p \in Callers : ListingServed(p)
    \/ \E p \in Callers : ListingAnswered(p)
    \/ \E p \in Callers : RemotePutFile(p)
    \/ \E p \in Callers : createDirectoryDone(p)

SpecWalk == Init /\ [][NextWalk]_vars

(***************************************************************************)
(* Address resolution: every operation on an address whose host identifier *)
(* is malformed and on one whose host the tree does not know, next to stat *)
(* on an address of a known host.                                          *)
(***************************************************************************)
RefusedUris == {[site |-> MalformedSite, path |-> DFPath],
                [site |-> UnknownSite, path |-> DFPath]}

NextAddress ==
    \/ \E p \in Callers : \E uri \in RefusedUris \cup {Uri(DFPath)} : stat(p, uri)
    \/ \E p \in Callers : lookup(p)
    \/ \E p \in Callers : ListingAnswered(p)
    \/ \E p \in Callers : \E uri \in RefusedUris : readDirectory(p, uri)
    \/ \E p \in Callers : \E uri \in RefusedUris : readFile(p, uri)
    \/ \E p \in Callers : \E uri \in RefusedUris : writeFile(p, uri, <<65>>)
    \/ \E p \in Callers : \E uri \in RefusedUris : createDirectory(p, uri)
    \/ \E p \in Callers : \E uri \in RefusedUris : delete(p, uri, FALSE)

SpecAddress == Init /\ [][NextAddress]_vars

(***************************************************************************)
(* Deletion: delete of a file and of a directory, with and without         *)
(* recursion, while another writer may replace the file.                   *)
(***************************************************************************)
NextDelete ==
    \/ \E p \in Callers : \E in \in DeleteInputs : delete(p, in[1], in[2])
    \/ \E p \in Callers : lookup(p)
    \/ \E p \in Callers : ListingServed(p)
    \/ \E p \in Callers : ListingAnswered(p)
    \/ \E p \in Callers : RemoteGetFile(p)
    \/ \E p \in Callers : RemoteDeleteItem(p)
    \/ \E n \in Nodes : ExternalWrite(n)
    \/ \E p \in Callers : deleteGotFile(p)
    \/ \E p \in Callers : deleteDone(p)

SpecDelete == Init /\ [][NextDelete]_vars

(***************************************************************************)
(* The roots: operations on two hosts of the tree, those on the first one  *)
(* concurrent and of every kind that walks from the root.  The second host *)
(* is only read.                                                           *)
(***************************************************************************)
NextRoots ==
    \/ \E p \in Callers : stat(p, [site |-> SiteC, path |-> DFPath])
    \/ \E p \in Callers : readDirectory(p, Uri(DPath))
    \/ \E p \in Callers : writeFile(p, Uri(DFPath), <<65>>)
    \/ \E p \in Callers : delete(p, Uri(DFPath), FALSE)
    \/ \E p \in Callers : lookup(p)
    \/ \E p \in Callers : ListingServed(p)
    \/ \E p \in Callers : ListingAnswered(p)
    \/ \E p \in Callers : RemoteGetFile(p)
    \/ \E p \in Callers : RemotePutFile(p)
    \/ \E p \in Callers : RemoteDeleteItem(p)
    \/ \E p \in Callers : writeFileDone(p)
    \/ \E p \in Callers : deleteGotFile(p)
    \/ \E p \in Callers : deleteDone(p)

SpecRoots == Init /\ [][NextRoots]_vars

(***************************************************************************)
(* Deleting a file whose tag is recorded and writing it again, the adapter *)
(* being the only writer.                                                  *)
(***************************************************************************)
NextRecreate ==
    \/ \E p \in Callers : readFile(p, Uri(DFPath))
    \/ \E p \in Callers : writeFile(p, Uri(DFPath), <<65>>)
    \/ \E p \in Callers : delete(p, Uri(DFPath), FALSE)
    \/ \E p \in Callers : lookup(p)
    \/ \E p \in Callers : ListingServed(p)
    \/ \E p \in Callers : ListingAnswered(p)
    \/ \E p \in Callers : RemoteGetFile(p)
    \/ \E p \in Callers : RemotePutFile(p)
    \/ \E p \in Callers : RemoteDeleteItem(p)
    \/ \E p \in Callers : readFileDone(p)
    \/ \E p \in Callers : writeFileDone(p)
    \/ \E p \in Callers : deleteGotFile(p)
    \/ \E p \in Callers : deleteDone(p)

SpecRecreate == Init /\ [][NextRecreate]_vars

(***************************************************************************)
(* Changes of the entries directly under the host's root: their parent is  *)
(* path.dirname of a path of one segment.                                  *)
(***************************************************************************)
NextTopLevel ==
    \/ \E p \in Callers : readDirectory(p, Uri(RootPath))
    \/ \E p \in Callers : writeFile(p, Uri(GPath), <<65>>)
    \/ \E p \in Callers : createDirectory(p, Uri(GPath))
    \/ \E p \in Callers : delete(p, Uri(DPath), TRUE)
    \/ \E p \in Callers : lookup(p)
    \/ \E p \in Callers : ListingServed(p)
    \/ \E p \in Callers : ListingAnswered(p)
    \/ \E p \in Callers : RemotePutFile(p)
    \/ \E p \in Callers : RemoteDeleteItem(p)
    \/ \E p \in Callers : writeFileDone(p)
    \/ \E p \in Callers : createDirectoryDone(p)
    \/ \E p \in Callers : deleteDone(p)

SpecTopLevel == Init /\ [][NextTopLevel]_vars

(***************************************************************************)
(* The tunnel proxy's operations and event handlers.                       *)
(***************************************************************************)
\* The proxy and the objects it holds, as one value.
Cur == [proxy |-> proxy, listener |-> listener, client |-> client,
        connection |-> connection, sockets |-> sockets]

Set(st) ==
    /\ proxy' = st.proxy
    /\ listener' = st.listener
    /\ client' = st.client
    /\ connection' = st.connection
    /\ sockets' = st.sockets

\* _openSockets.forEach(socket => socket.destroy())
RECURSIVE DestroyAll(_, _)
DestroyAll(open, socks) ==
    IF open = <<>> THEN socks
    ELSE DestroyAll(Tail(open), [socks EXCEPT ![Head(open)].state = "destroyed"])

\* _openSockets.forEach(socket => socket.write(data)): an open socket takes
\* the data, a destroyed one takes nothing.
RECURSIVE WriteAll(_, _, _)
WriteAll(open, socks, data) ==
    IF open = <<>> THEN socks
    ELSE WriteAll(Tail(open),
                  IF socks[Head(open)].state = "open"
                  THEN [socks EXCEPT ![Head(open)].written = Append(@, data)]
                  ELSE socks,
                  data)

\* connection.close() after which the connection goes on delivering what
\* the peer sends until the peer has answered the close.
CloseConnection_keepOpen(conn) ==
    [conn EXCEPT !.closeCalls = @ + 1]

\* connection.close(): an open connection starts its closing handshake.
CloseConnection(conn) ==
    [conn EXCEPT !.closeCalls = @ + 1,
                 !.state = IF @ = "open" THEN "closing" ELSE @]

\* client.abort(): a connection attempt in progress is cancelled.
AbortClient(cl) ==
    [cl EXCEPT !.abortCalls = @ + 1,
               !.state = IF @ = "connecting" THEN "aborted" ELSE @]

\* server.close(): a listening server stops accepting.  A server whose
\* listen() has not completed yet (the host name is still being resolved)
\* has no handle to close: whether the pending listen is cancelled depends
\* on the runtime, so it is left pending in a state of its own.
CloseServer(srv) ==
    [srv EXCEPT !.closeCalls = @ + 1,
                !.state = IF @ = "pending" THEN "closedEarly"
                          ELSE IF @ = "closedEarly" THEN @ ELSE "closed"]

\* dispose() that closes, aborts and destroys but keeps its references.
dispose_keepRefs(st) ==
    [proxy |-> [st.proxy EXCEPT !.keepAlive = FALSE],
     connection |-> IF st.proxy.wsconnection THEN CloseConnection(st.connection)
                    ELSE st.connection,
     client |-> IF st.proxy.wsclient THEN AbortClient(st.client) ELSE st.client,
     listener |-> IF st.proxy.server THEN CloseServer(st.listener) ELSE st.listener,
     sockets |-> DestroyAll(st.proxy.openSockets, st.sockets)]

\* dispose(): the state it leaves.
dispose(st) ==
    [proxy |-> [st.proxy EXCEPT !.wsconnection = FALSE, !.wsclient = FALSE,
                                !.server = FALSE, !.keepAlive = FALSE],
     connection |-> IF st.proxy.wsconnection THEN CloseConnection(st.connection)
                    ELSE st.connection,
     client |-> IF st.proxy.wsclient THEN AbortClient(st.client) ELSE st.client,
     listener |-> IF st.proxy.server THEN CloseServer(st.listener) ELSE st.listener,
     sockets |-> DestroyAll(st.proxy.openSockets, st.sockets)]

\* startProxy() without the test of _server.
startProxy_noCheck ==
    /\ calls.start < MaxStarts
    /\ proxy.server => client.created = 0
    /\ calls' = [calls EXCEPT !.start = @ + 1]
    /\ proxy' = [proxy EXCEPT !.wsclient = TRUE]
    /\ client' = [client EXCEPT !.state = "connecting", !.created = @ + 1,
                                !.connectCalls = @ + 1]
    /\ listener' = [listener EXCEPT !.state = "pending", !.listenCalls = @ + 1]
    /\ UNCHANGED <<editorVars, fsVars, connection, sockets, emitted, received, chunks>>

\* startProxy().  The owner starts an instance once; a later call finds the
\* instance disposed.
startProxy ==
    /\ calls.start < MaxStarts
    /\ proxy.server => client.created = 0
    /\ calls' = [calls EXCEPT !.start = @ + 1]
    /\ IF ~proxy.server
       THEN /\ emitted' = Append(emitted, ErrorEvent(NotStarted))
            /\ UNCHANGED <<proxy, listener, client, connection, sockets>>
       ELSE /\ proxy' = [proxy EXCEPT !.wsclient = TRUE]
            /\ client' = [client EXCEPT !.state = "connecting", !.created = @ + 1,
                                        !.connectCalls = @ + 1]
            /\ listener' = [listener EXCEPT !.state = "pending", !.listenCalls = @ + 1]
            /\ UNCHANGED <<connection, sockets, emitted>>
    /\ UNCHANGED <<editorVars, fsVars, received, chunks>>

\* dispose() called by the owner.
ownerDispose ==
    /\ calls.dispose < MaxDisposes
    /\ calls' = [calls EXCEPT !.dispose = @ + 1]
    /\ Set(dispose(Cur))
    /\ UNCHANGED <<editorVars, fsVars, emitted, received, chunks>>

\* The 'connect' handler sending the chunks that arrived before it.
onConnect_flush ==
    /\ client.state = "connecting"
    /\ client' = [client EXCEPT !.state = "connected"]
    /\ connection' = [connection EXCEPT !.state = "open",
                                        !.sent = [i \in 1..Len(chunks) |-> chunks[i][2]]]
    /\ proxy' = [proxy EXCEPT !.wsconnection = TRUE]
    /\ UNCHANGED <<editorVars, fsVars, listener, sockets, emitted, received, chunks, calls>>

\* The client's 'connect' event.
onConnect ==
    /\ client.state = "connecting"
    /\ client' = [client EXCEPT !.state = "connected"]
    /\ connection' = [connection EXCEPT !.state = "open"]
    /\ proxy' = [proxy EXCEPT !.wsconnection = TRUE]
    /\ UNCHANGED <<editorVars, fsVars, listener, sockets, emitted, received, chunks, calls>>

\* The 'connectFailed' handler emitting the error without dispose().
onConnectFailed_emitOnly(err) ==
    /\ client.state = "connecting"
    /\ client' = [client EXCEPT !.state = "failed", !.error = err]
    /\ emitted' = Append(emitted, ErrorEvent(err))
    /\ UNCHANGED <<editorVars, fsVars, proxy, listener, connection, sockets, received, chunks, calls>>

\* The client's 'connectFailed' event.
onConnectFailed(err) ==
    /\ client.state = "connecting"
    /\ LET st == dispose([Cur EXCEPT !.client.state = "failed", !.client.error = err])
       IN  Set([st EXCEPT !.sockets = DestroyAll(st.proxy.openSockets, @)])
    /\ emitted' = Append(emitted, ErrorEvent(err))
    /\ UNCHANGED <<editorVars, fsVars, received, chunks, calls>>

\* The connection's 'close' event: the remote end closed an open connection,
\* or the close started by close() or by an error has completed.
onConnectionClose ==
    /\ connection.state \in {"open", "closing", "errored"}
    /\ LET st == dispose([Cur EXCEPT !.connection.state = "closed"])
       IN  Set([st EXCEPT !.sockets = DestroyAll(st.proxy.openSockets, @)])
    /\ emitted' = Append(emitted, EndEvent)
    /\ UNCHANGED <<editorVars, fsVars, received, chunks, calls>>

\* The connection's 'error' event; its 'close' event follows.
onConnectionError(err) ==
    /\ connection.state = "open"
    /\ LET st == dispose([Cur EXCEPT !.connection.state = "errored",
                                     !.connection.error = err])
       IN  Set([st EXCEPT !.sockets = DestroyAll(st.proxy.openSockets, @)])
    /\ emitted' = Append(emitted, ErrorEvent(err))
    /\ UNCHANGED <<editorVars, fsVars, received, chunks, calls>>

\* The 'message' handler writing to one socket only, the one accepted last.
onMessage_oneSocket(data) ==
    /\ connection.state = "open"
    /\ Len(received) < MaxMessages
    /\ received' = Append(received, data)
    /\ sockets' = IF proxy.openSockets = <<>> THEN sockets
                  ELSE WriteAll(<<proxy.openSockets[Len(proxy.openSockets)]>>, sockets, data)
    /\ UNCHANGED <<editorVars, fsVars, proxy, listener, client, connection, emitted, chunks, calls>>

\* The connection's 'message' event.  A connection delivers no message once
\* it is closing.
onMessage(data) ==
    /\ connection.state = "open"
    /\ Len(received) < MaxMessages
    /\ received' = Append(received, data)
    /\ sockets' = WriteAll(proxy.openSockets, sockets, data)
    /\ UNCHANGED <<editorVars, fsVars, proxy, listener, client, connection, emitted, chunks, calls>>

\* The server's 'listening' event: the pending listen() has completed.
onListening ==
    /\ listener.state \in {"pending", "closedEarly"}
    /\ listener' = [listener EXCEPT !.state = "listening"]
    /\ emitted' = Append(emitted, StartEvent)
    /\ UNCHANGED <<editorVars, fsVars, proxy, client, connection, sockets, received, chunks, calls>>

\* The server's 'connection' event: a local client has connected.
onServerConnection(s) ==
    /\ listener.state = "listening"
    /\ sockets[s].state = "none"
    /\ \A t \in SocketIds : t < s => sockets[t].state # "none"
    /\ sockets' = [sockets EXCEPT ![s].state = "open"]
    /\ proxy' = [proxy EXCEPT !.openSockets = Append(@, s)]
    /\ UNCHANGED <<editorVars, fsVars, listener, client, connection, emitted, received, chunks, calls>>

\* The 'data' handler putting the chunk ahead of those already sent.
onSocketData_reordered(s, data) ==
    /\ sockets[s].state = "open"
    /\ Len(chunks) < MaxChunks
    /\ chunks' = Append(chunks, <<s, data>>)
    /\ connection' = IF proxy.wsconnection
                     THEN [connection EXCEPT !.sent = <<data>> \o @]
                     ELSE connection
    /\ UNCHANGED <<editorVars, fsVars, proxy, listener, client, sockets, emitted, received, calls>>

\* A local socket's 'data' event.
onSocketData(s, data) ==
    /\ sockets[s].state = "open"
    /\ Len(chunks) < MaxChunks
    /\ chunks' = Append(chunks, <<s, data>>)
    /\ connection' = IF proxy.wsconnection
                     THEN [connection EXCEPT !.sent = Append(@, data)]
                     ELSE connection
    /\ UNCHANGED <<editorVars, fsVars, proxy, listener, client, sockets, emitted, received, calls>>

\* The 'end' handler destroying the ended socket only, without dispose().
onSocketEnd_noDispose(s) ==
    /\ sockets[s].state = "open"
    /\ sockets' = [sockets EXCEPT ![s].ended = TRUE, ![s].state = "destroyed"]
    /\ emitted' = Append(emitted, EndEvent)
    /\ UNCHANGED <<editorVars, fsVars, proxy, listener, client, connection, received, chunks, calls>>

\* A local socket's 'end' event.
onSocketEnd(s) ==
    /\ sockets[s].state = "open"
    /\ Set(dispose([Cur EXCEPT !.sockets[s].ended = TRUE]))
    /\ emitted' = Append(emitted, EndEvent)
    /\ UNCHANGED <<editorVars, fsVars, received, chunks, calls>>

\* A local socket's 'error' event.
onSocketError(s, err) ==
    /\ sockets[s].state = "open"
    /\ LET st == dispose([Cur EXCEPT !.sockets[s].error = err])
       IN  Set([st EXCEPT !.sockets[s].state = "destroyed"])
    /\ emitted' = Append(emitted, ErrorEvent(err))
    /\ UNCHANGED <<editorVars, fsVars, received, chunks, calls>>

(***************************************************************************)
(* The tunnel proxy alone.                                                 *)
(***************************************************************************)
NextProxy ==
    \/ startProxy
    \/ ownerDispose
    \/ onConnect
    \/ \E err \in ErrorValues : onConnectFailed(err)
    \/ onConnectionClose
    \/ \E err \in ErrorValues : onConnectionError(err)
    \/ \E data \in Payloads : onMessage(data)
    \/ onListening
    \/ \E s \in SocketIds : onServerConnection(s)
    \/ \E s \in SocketIds : \E data \in Payloads : onSocketData(s, data)
    \/ \E s \in SocketIds : onSocketEnd(s)
    \/ \E s \in SocketIds : \E err \in ErrorValues : onSocketError(s, err)

SpecProxy == Init /\ [][NextProxy]_vars

(***************************************************************************)
(* The proxy's life cycle: start, the events that end a session, disposal. *)
(* No data is relayed.                                                     *)
(***************************************************************************)
InitTunnel == Init /\ ~readonly

NextLifecycle ==
    \/ startProxy
    \/ ownerDispose
    \/ onConnect
    \/ \E err \in ErrorValues : onConnectFailed(err)
    \/ onConnectionClose
    \/ \E err \in ErrorValues : onConnectionError(err)
    \/ onListening
    \/ \E s \in SocketIds : onServerConnection(s)
    \/ \E s \in SocketIds : onSocketEnd(s)
    \/ \E s \in SocketIds : \E err \in ErrorValues : onSocketError(s, err)

SpecLifecycle == InitTunnel /\ [][NextLifecycle]_vars

(***************************************************************************)
(* Relaying: data in both directions during one session that a local       *)
(* socket's end or the upstream's close terminates.                        *)
(***************************************************************************)
NextRelay ==
    \/ startProxy
    \/ onConnect
    \/ onConnectionClose
    \/ \E data \in Payloads : onMessage(data)
    \/ onListening
    \/ \E s \in SocketIds : onServerConnection(s)
    \/ \E s \in SocketIds : \E data \in Payloads : onSocketData(s, data)
    \/ \E s \in SocketIds : onSocketEnd(s)

SpecRelay == InitTunnel /\ [][NextRelay]_vars

(***************************************************************************)
(* The explorer's folder node and the directory objects, each turning the  *)
(* list the remote file API returned into nodes or entries.  One expansion *)
(* of a folder or one refresh of a directory is followed: what each makes  *)
(* depends on its response alone.                                          *)
(***************************************************************************)
\* FolderTreeItem.loadMoreChildrenImpl, with the response of the listing
\* request and the setting read when the action node is made.
loadMoreChildrenImpl(contextValue, setting, fileList) ==
    /\ ~explorer.loaded /\ ~explorer.refreshed
    /\ explorer' = [explorer EXCEPT !.contextValue = contextValue, !.setting = setting,
                                    !.loaded = TRUE, !.fileList = fileList,
                                    !.children = Children(contextValue, setting, fileList)]
    /\ UNCHANGED <<fsVars, proxyVars, remoteDebug, sessions>>

\* Directory.actuallyRefreshEntries on a response: the entries a directory
\* read returns.
actuallyRefreshEntries(fileList) ==
    /\ ~explorer.loaded /\ ~explorer.refreshed
    /\ explorer' = [explorer EXCEPT !.refreshed = TRUE, !.response = fileList,
                                    !.entries = BuildEntries({fileList[i] : i \in 1..Len(fileList)}, 1)]
    /\ UNCHANGED <<fsVars, proxyVars, remoteDebug, sessions>>

NextExplorer ==
    \/ \E contextValue \in ContextValues : \E setting \in BOOLEAN : \E fileList \in FileLists :
           loadMoreChildrenImpl(contextValue, setting, fileList)
    \/ \E fileList \in FileLists : actuallyRefreshEntries(fileList)

SpecExplorer == Init /\ [][NextExplorer]_vars

(***************************************************************************)
(* The command startRemoteDebug: it makes a proxy, waits for its 'start',  *)
(* starts the debug session and disposes the proxy when the session ends.  *)
(* emit() calls the listeners before the handler that emits goes on: the   *)
(* listeners' step follows the emitting step with nothing in between.      *)
(***************************************************************************)
Heard == remoteDebug.heard = Len(emitted)

\* The tunnel set-up, up to the call of startProxy(): the proxy is made and
\* the listeners of 'error' and 'start' are registered.
startRemoteDebug ==
    /\ remoteDebug.pc = "idle"
    /\ remoteDebug' = [remoteDebug EXCEPT !.pc = "awaitProxy", !.heard = Len(emitted)]
    /\ UNCHANGED <<explorer, sessions, fsVars, proxyVars>>

\* debugProxy.startProxy(), the last statement of the set-up.
callStartProxy ==
    /\ remoteDebug.pc = "awaitProxy"
    /\ calls.start = 0
    /\ startProxy

\* The listeners with an 'error' listener that disposes and throws but
\* does not reject.
Notified_noReject(rd, ev) ==
    IF ev.type = "error"
    THEN [rd EXCEPT !.heard = @ + 1, !.disposeCalls = @ + 1]
    ELSE IF ev.type = "start"
    THEN [rd EXCEPT !.heard = @ + 1,
                    !.promise = IF @ = "pending" THEN "resolved" ELSE @]
    ELSE [rd EXCEPT !.heard = @ + 1]

\* The listeners of the proxy: 'error' disposes the proxy and rejects the
\* promise of the set-up with the error (and throws it), 'start' resolves
\* the promise; a settled promise stays as it is.  'end' has no listener.
Notified(rd, ev) ==
    IF ev.type = "error"
    THEN [rd EXCEPT !.heard = @ + 1, !.disposeCalls = @ + 1,
                    !.promise = IF @ = "pending" THEN "rejected" ELSE @,
                    !.err = IF rd.promise = "pending" THEN ev.err ELSE @]
    ELSE IF ev.type = "start"
    THEN [rd EXCEPT !.heard = @ + 1,
                    !.promise = IF @ = "pending" THEN "resolved" ELSE @]
    ELSE [rd EXCEPT !.heard = @ + 1]

onProxyEvent ==
    /\ remoteDebug.pc # "idle"
    /\ ~Heard
    /\ LET ev == emitted[remoteDebug.heard + 1]
       IN  /\ remoteDebug' = Notified(remoteDebug, ev)
           /\ Set(IF ev.type = "error" THEN dispose(Cur) ELSE Cur)
    /\ UNCHANGED <<explorer, sessions, fsVars, emitted, received, chunks, calls>>

\* The command goes on when the promise of the set-up is settled: rejected,
\* the command fails with the error; resolved, it calls
\* vscode.debug.startDebugging.
afterProxy ==
    /\ remoteDebug.pc = "awaitProxy"
    /\ Heard
    /\ remoteDebug.promise # "pending"
    /\ remoteDebug' = IF remoteDebug.promise = "rejected"
                      THEN [remoteDebug EXCEPT !.pc = "failed"]
                      ELSE [remoteDebug EXCEPT !.pc = "attaching", !.attachCalls = @ + 1]
    /\ UNCHANGED <<explorer, sessions, fsVars, proxyVars>>

\* vscode.debug: a session starts.  The session named sessionId is the one
\* startDebugging makes.
sessionStarts(name) ==
    /\ Heard
    /\ sessions[name] = "none"
    /\ name = sessionId => remoteDebug.pc = "attaching"
    /\ sessions' = [sessions EXCEPT ![name] = "running"]
    /\ UNCHANGED <<explorer, remoteDebug, fsVars, proxyVars>>

\* startDebugging returns, with or without a session started; the command
\* registers its listener of onDidTerminateDebugSession and ends.
startDebuggingReturns ==
    /\ remoteDebug.pc = "attaching"
    /\ Heard
    /\ remoteDebug' = [remoteDebug EXCEPT !.pc = "watching", !.listener = "registered"]
    /\ UNCHANGED <<explorer, sessions, fsVars, proxyVars>>

\* vscode.debug.onDidTerminateDebugSession fires for a session; the command's
\* listener, when registered, disposes the proxy and itself for its own
\* session.
onDidTerminateDebugSession(name) ==
    /\ Heard
    /\ sessions[name] = "running"
    /\ sessions' = [sessions EXCEPT ![name] = "terminated"]
    /\ IF remoteDebug.listener = "registered" /\ name = sessionId
       THEN /\ Set(dispose(Cur))
            /\ remoteDebug' = [remoteDebug EXCEPT !.listener = "disposed",
                                                  !.disposeCalls = @ + 1]
       ELSE UNCHANGED <<proxy, listener, client, connection, sockets, remoteDebug>>
    /\ UNCHANGED <<explorer, fsVars, emitted, received, chunks, calls>>

\* The events of the proxy while the command runs.
proxyEvent ==
    /\ Heard
    /\ \/ onConnect
       \/ \E err \in ErrorValues : onConnectFailed(err)
       \/ onConnectionClose
       \/ \E err \in ErrorValues : onConnectionError(err)
       \/ onListening
       \/ \E s \in SocketIds : onServerConnection(s)
       \/ \E s \in SocketIds : onSocketEnd(s)
       \/ \E s \in SocketIds : \E err \in ErrorValues : onSocketError(s, err)

NextDebug ==
    \/ startRemoteDebug
    \/ callStartProxy
    \/ onProxyEvent
    \/ afterProxy
    \/ \E name \in SessionNames : sessionStarts(name)
    \/ startDebuggingReturns
    \/ \E name \in SessionNames : onDidTerminateDebugSession(name)
    \/ proxyEvent

SpecDebug == InitTunnel /\ [][NextDebug]_vars

(***************************************************************************)
(* Properties.                                                             *)
(***************************************************************************)
Started(p, kind) == procs[p].kind = kind /\ procs[p].pc # "idle"
Ended(p, kind, outcome) ==
    procs[p].kind = kind /\ procs[p].pc = "done" /\ procs[p].outcome = outcome

\* The listing calls of directory d that are in flight.
InFlight(d) == {l \in DOMAIN tasks : tasks[l].dir = d}

\* C1: as long as no listing of a directory has failed and none was issued
\* by a mutation's forced refresh (the callers are stat/readDirectory calls
\* that need its children), at most one remote listing call has been issued
\* for it, exactly one once a caller awaits or has obtained its children, all
\* callers awaiting them await that one call, and all callers that obtained
\* them obtained the result of the same call.
C1_OneListingForConcurrentCallers ==
    \A d \in DOMAIN dirs :
        (~dirs[d].failed /\ ~dirs[d].forced) =>
            /\ dirs[d].issued <= 1
            /\ \A p \in Callers :
                 (procs[p].pc = "refreshing" /\ procs[p].await \in InFlight(d))
                    => (dirs[d].issued = 1 /\ InFlight(d) = {procs[p].await})
            /\ \A p \in Callers :
                 procs[p].seen[1] = d => (/\ dirs[d].issued = 1 /\ dirs[d].has
                                          /\ procs[p].seen[2] = dirs[d].lid)
            /\ \A p, q \in Callers :
                 (procs[p].seen[1] = d /\ procs[q].seen[1] = d)
                    => procs[p].seen[2] = procs[q].seen[2]

\* Two stat/readDirectory calls await the children of the same directory
\* below the root, and one listing call has been issued for it.
C1_Witness ==
    \E d \in DOMAIN dirs : \E p, q \in Callers :
        /\ p # q /\ d[1] # 0
        /\ dirs[d].issued = 1 /\ ~dirs[d].has /\ ~dirs[d].failed /\ ~dirs[d].forced
        /\ \A c \in {p, q} : /\ procs[c].kind \in {"stat", "readDirectory"}
                             /\ procs[c].pc = "refreshing"
                             /\ procs[c].await = dirs[d].task

\* C2: the cached children of a directory are absent or exactly the map
\* built from the list one remote listing call returned, and the result of a
\* readDirectory is the (name, type) pairs of exactly one such list.
C2_ChildrenAreOneWholeListing ==
    /\ \A d \in DOMAIN dirs :
         IF dirs[d].has
         THEN dirs[d].kids = BuildEntries(dirs[d].src, dirs[d].lid)
         ELSE dirs[d].kids = NoKids
    /\ \A p \in Callers :
         (/\ Ended(p, "readDirectory", "ok")
          /\ procs[p].seen[1] \in DOMAIN dirs
          /\ dirs[procs[p].seen[1]].lid = procs[p].seen[2])
            => procs[p].resList =
                 {<<f.name, IF f.mime = directoryMime THEN "Directory" ELSE "File">> :
                     f \in dirs[procs[p].seen[1]].src}

\* A directory whose children were listed twice holds its second listing,
\* which no longer has the entry the first one had.
C2_Witness ==
    \E d \in DOMAIN dirs :
        /\ dirs[d].has /\ dirs[d].issued = 2 /\ dirs[d].task = 0
        /\ dirs[d].src = {} /\ dirs[d].kids = NoKids
        /\ remote[DFPath].kind = "none"

\* C3: a directory has at most one listing call in flight, its in-flight
\* handle is set exactly while that call is in flight (it is cleared when
\* the call completes, by success or by failure), and no caller awaits a
\* call that has completed.
C3_OneRefreshInFlight ==
    /\ \A d \in DOMAIN dirs :
         /\ Cardinality(InFlight(d)) <= 1
         /\ IF dirs[d].task = 0 THEN InFlight(d) = {} ELSE InFlight(d) = {dirs[d].task}
    /\ \A l \in DOMAIN tasks : tasks[l].dir \in DOMAIN dirs
    /\ \A p \in Callers : procs[p].pc = "refreshing" => procs[p].await \in DOMAIN tasks

\* After a listing of a directory failed, a second listing call for it is in
\* flight.
C3_Witness ==
    \E d \in DOMAIN dirs :
        dirs[d].failed /\ dirs[d].issued = 2 /\ dirs[d].task # 0 /\ InFlight(d) # {}

\* C4 as claimed: a writeFile, createDirectory or delete issues no listing of
\* the directory that contains its target before its remote mutation has
\* succeeded, and refreshes the parent only after that.
C4_NoParentListingBeforeMutation ==
    \A p \in Callers :
        procs[p].kind \in Mutating =>
            /\ ~procs[p].preList
            /\ (procs[p].phase = "parent" \/ procs[p].why = "force") => procs[p].mutOk

\* C4 as amended: writeFile and createDirectory issue no listing at all before
\* their remote mutation has succeeded; delete issues listings before it only
\* in the lookup of its target (filling directories not yet cached); the
\* forced refresh of the parent and the lookup that precedes it happen only
\* after the mutation succeeded, and never when it failed.
C4_ForcedRefreshOnlyAfterMutation ==
    \A p \in Callers :
        procs[p].kind \in Mutating =>
            /\ procs[p].preList => procs[p].kind = "delete"
            /\ (procs[p].kind # "delete" /\ ~procs[p].mutOk) => procs[p].calls.list = 0
            /\ (procs[p].phase = "parent" \/ procs[p].why = "force") => procs[p].mutOk
            /\ (procs[p].why # "none" /\ ~procs[p].mutOk) => procs[p].why = "getEntry"
            /\ procs[p].outcome \in {"RemoteError", "StaleVersion"}
                  => (~procs[p].mutOk /\ procs[p].parent = NoObj)

\* A delete that listed its target's parent during its lookup now awaits the
\* forced refresh of the parent, its remote delete having succeeded.
C4_Witness ==
    \E p \in Callers :
        /\ procs[p].kind = "delete" /\ procs[p].preList /\ procs[p].mutOk
        /\ procs[p].pc = "refreshing" /\ procs[p].why = "force"

\* C5: when a writeFile, createDirectory or delete has completed
\* successfully, the cached children of the parent it refreshed come from a
\* listing the host served after it applied the mutation.
C5_ParentListingTakenAfterMutation ==
    \A p \in Callers :
        (procs[p].pc = "done" /\ procs[p].outcome = "ok" /\ procs[p].kind \in Mutating
         /\ procs[p].parent \in DOMAIN dirs)
            => (dirs[procs[p].parent].has /\ dirs[procs[p].parent].ver >= procs[p].mutAt)

\* C6: on a read-only adapter every step in which a caller's writeFile,
\* createDirectory or delete takes place ends it with NoPermissions, with no
\* remote call issued (no resolution lookup, listing, get, put or delete),
\* and leaves the tag table, the roots and the cached directories unchanged.
C6_ReadOnlyRejectsWithoutRemoteCall ==
    [][readonly =>
        \A p \in Callers :
            (procs'[p] # procs[p] /\ procs'[p].kind \in Mutating) =>
                /\ procs'[p].pc = "done"
                /\ procs'[p].outcome = "NoPermissions"
                /\ procs'[p].calls = NoCalls
                /\ procs'[p].rq = NoReq
                /\ UNCHANGED <<etags, roots, dirs, tasks, nlst, remote, version>>]_vars

\* On a read-only adapter with a cached directory, a delete was rejected.
C6_Witness ==
    /\ readonly
    /\ \E d \in DOMAIN dirs : dirs[d].has
    /\ \E p \in Callers : Ended(p, "delete", "NoPermissions")

\* C7 as claimed: every rename ends with NotImplemented and issues no remote
\* call, on read-only and writable adapters alike.
C7_RenameAlwaysNotImplemented ==
    \A p \in Callers :
        Started(p, "rename") =>
            (procs[p].pc = "done" /\ procs[p].outcome = "NotImplemented"
             /\ procs[p].calls = NoCalls)

\* C7 as amended: every rename ends at once without a remote call, with
\* NotImplemented on a writable adapter and NoPermissions on a read-only one.
C7_RenameFailsWithoutRemoteCall ==
    \A p \in Callers :
        Started(p, "rename") =>
            /\ procs[p].pc = "done"
            /\ procs[p].calls = NoCalls
            /\ procs[p].outcome = IF readonly THEN "NoPermissions" ELSE "NotImplemented"

\* A rename was rejected by a read-only adapter.
C7_Witness == readonly /\ \E p \in Callers : Ended(p, "rename", "NoPermissions")

\* The write of caller p has just been answered with success / the read has.
PutAnswered(p) ==
    procs[p].kind = "writeFile" /\ procs[p].pc = "putFile" /\ procs[p].rq.st = "ok"
GetAnswered(p) ==
    procs[p].kind = "readFile" /\ procs[p].pc = "getFile" /\ procs[p].rq.st = "ok"

\* C8: a writeFile sends its write under the tag the table holds for the
\* address at that moment (none when the table has none); when the write
\* succeeded the tag it returned becomes the table's entry, and so does the
\* tag returned with the content of a successful readFile; the entry changes
\* in no other way.
C8_WritesUnderRecordedTag ==
    [][\A p \in Callers :
         /\ (procs[p].pc # "putFile" /\ procs'[p].pc = "putFile" /\ procs'[p].kind = "writeFile")
               => (/\ procs'[p].rq.ifMatch = etags[procs'[p].uri]
                   /\ procs'[p].rq.path = procs'[p].uri.path
                   /\ procs'[p].rq.st = "sent")
         /\ (PutAnswered(p) /\ procs'[p].pc # "putFile")
               => etags'[procs[p].uri] = procs[p].rq.etag
         /\ (GetAnswered(p) /\ procs'[p].pc # "getFile")
               => etags'[procs[p].uri] = procs[p].rq.etag
         /\ \A u \in Uris :
               etags'[u] # etags[u] =>
                  \E q \in Callers : /\ PutAnswered(q) \/ GetAnswered(q)
                                     /\ procs[q].uri = u /\ procs'[q].pc # procs[q].pc
                                     /\ etags'[u] = procs[q].rq.etag]_vars

\* A write sent under a recorded tag was accepted and returned a new tag.
C8_Witness ==
    \E p \in Callers :
        /\ PutAnswered(p)
        /\ procs[p].rq.ifMatch # NoTag
        /\ procs[p].rq.ifMatch = etags[procs[p].uri]
        /\ procs[p].rq.etag > procs[p].rq.ifMatch

\* C9: a write sent under a tag older than the file's current tag is refused
\* as stale and leaves the remote tree unchanged; the writeFile then ends
\* with the stale-version error, having sent one write and no listing, and
\* leaves the tag table and the cached directories unchanged.
C9_StaleWriteSurfaces ==
    [][\A p \in Callers :
         /\ (/\ procs[p].kind = "writeFile" /\ procs[p].pc = "putFile"
             /\ procs[p].rq.st = "sent" /\ procs'[p].rq.st # "sent"
             /\ procs[p].rq.ifMatch # NoTag
             /\ remote[procs[p].rq.path].kind = "file"
             /\ procs[p].rq.ifMatch < remote[procs[p].rq.path].tag)
               => (procs'[p].rq.st \in {"stale", "fail"} /\ UNCHANGED <<remote, version>>)
         /\ (/\ procs[p].kind = "writeFile" /\ procs[p].pc = "putFile"
             /\ procs[p].rq.st = "stale" /\ procs'[p].pc # "putFile")
               => (/\ procs'[p].pc = "done"
                   /\ procs'[p].outcome = "StaleVersion"
                   /\ procs'[p].calls.put = 1
                   /\ procs'[p].calls.list = 0
                   /\ UNCHANGED <<etags, roots, dirs, tasks, nlst, remote, version>>)]_vars

\* A writeFile ended with the stale-version error: the tag the table holds
\* for its address is older than the file's tag.
C9_Witness ==
    \E p \in Callers :
        /\ Ended(p, "writeFile", "StaleVersion")
        /\ etags[procs[p].uri] # NoTag
        /\ etags[procs[p].uri] < remote[procs[p].uri.path].tag

\* C10: when a readFile that followed the caller's own successful writeFile
\* of the same address has succeeded, nothing else having touched the file
\* since the write, the bytes it returned are the bytes written and the
\* table's entry is the tag the write returned.
C10_ReadReturnsWhatWasWritten ==
    \A p \in Callers :
        (Ended(p, "readFile", "ok") /\ procs[p].wr.valid) =>
            /\ procs[p].resData = procs[p].wr.content
            /\ etags[procs[p].uri] = procs[p].wr.tag

(***************************************************************************)
(* Properties of the tunnel proxy.                                         *)
(***************************************************************************)
HasEmitted(type) == \E i \in 1..Len(emitted) : emitted[i].type = type
Disposed == ~proxy.keepAlive

\* C11: the ready signal 'start' has been emitted only if the upstream
\* connection has been opened: in no state has 'start' been emitted while
\* the upstream connection is still absent.
C11_ReadyOnlyWithUpstreamOpen ==
    HasEmitted("start") => connection.state # "none"

\* The session is relaying: the upstream connection is open and held, the
\* listener is listening and nothing has been disposed.
Relaying ==
    /\ proxy.wsconnection
    /\ connection.state = "open"
    /\ listener.state = "listening"
    /\ ~Disposed

\* C12: while relaying, a message received from the upstream connection is
\* written exactly once to every local socket that is open, and to nothing
\* else: each open socket's writes grow by the message's payload.
C12_MessageWrittenOnceToEveryOpenSocket ==
    [][(Relaying /\ Len(received') > Len(received))
       => \A s \in SocketIds :
            sockets'[s].written =
                IF sockets[s].state = "open"
                THEN Append(sockets[s].written, received'[Len(received')])
                ELSE sockets[s].written]_vars

\* Two local sockets are open and one upstream message has been written to
\* both.
C12_Witness ==
    /\ Relaying
    /\ Len(received) = 1
    /\ \A s \in {1, 2} : sockets[s].state = "open" /\ sockets[s].written = received

\* C13: while relaying, a chunk received from a local socket produces exactly
\* one outbound upstream message equal to the chunk, sent after all earlier
\* ones, and nothing else is ever sent upstream.
C13_ChunkSentOnceInOrder ==
    [][/\ (Relaying /\ Len(chunks') > Len(chunks))
            => connection'.sent = Append(connection.sent, chunks'[Len(chunks')][2])
       /\ connection'.sent # connection.sent => Len(chunks') = Len(chunks) + 1]_vars

\* One socket has delivered two different chunks and both went upstream in
\* the order received.
C13_Witness ==
    /\ Relaying
    /\ chunks = << <<1, <<1>> >>, <<1, <<2>> >> >>
    /\ connection.sent = << <<1>>, <<2>> >>

\* The state dispose() leaves: every accepted socket destroyed, the
\* connection (if one was opened) told to close, the client (if one was
\* made) aborted or past connecting, the listener told to close, and no
\* reference held.
AllDisposed ==
    /\ \A s \in SocketIds : sockets[s].state \in {"none", "destroyed"}
    /\ connection.state \in {"none", "closing", "closed", "errored"}
    /\ connection.state # "none" => connection.closeCalls = 1
    /\ client.state # "connecting"
    /\ client.created > 0 => client.abortCalls = 1
    /\ listener.closeCalls = 1
    /\ listener.state \in {"closed", "closedEarly"}
    /\ ~proxy.server /\ ~proxy.wsclient /\ ~proxy.wsconnection

\* A local socket signals end-of-stream in this step.
SocketEnds == \E s \in SocketIds : ~sockets[s].ended /\ sockets'[s].ended
\* The upstream connection, open until now, closes in this step.
UpstreamCloses == connection.state = "open" /\ connection'.state = "closed"

\* C14: when the upstream connection closes cleanly or a local socket signals
\* end-of-stream in a live session, 'end' is emitted, no error has been
\* emitted, and at that moment every accepted socket is destroyed, the
\* upstream connection is closed and the listener is closed.
C14_EndAfterFullDisposal ==
    [][(~Disposed /\ (SocketEnds \/ UpstreamCloses))
       => /\ emitted' = Append(emitted, EndEvent)
          /\ ~HasEmitted("error")
          /\ AllDisposed']_vars

\* A session with two accepted sockets and an open upstream connection was
\* ended by one socket's end-of-stream.
C14_Witness ==
    /\ emitted = <<StartEvent, EndEvent>>
    /\ sockets[1].ended
    /\ \A s \in {1, 2} : sockets[s].state = "destroyed"
    /\ connection.state = "closing"
    /\ AllDisposed

\* The error with which, in this step, the upstream connect fails, the open
\* upstream connection errs, or a local socket errs.
Fails(err) ==
    \/ client.state = "connecting" /\ client'.state = "failed" /\ client'.error = err
    \/ connection.error = "none" /\ connection'.error = err
    \/ \E s \in SocketIds : sockets[s].error = "none" /\ sockets'[s].error = err

\* C15: on upstream connect failure, upstream connection error or an error on
\* a local socket in a live session, the triggering error is emitted as
\* 'error' and the same disposal is performed: sockets destroyed, connection
\* closed, client aborted, listener closed.
C15_ErrorAfterFullDisposal ==
    [][\A err \in ErrorValues :
          (~Disposed /\ Fails(err))
          => /\ emitted' = Append(emitted, ErrorEvent(err))
             /\ AllDisposed']_vars

\* An upstream connection error ended a session with two accepted sockets.
C15_Witness ==
    /\ emitted = <<StartEvent, ErrorEvent("ETIMEDOUT")>>
    /\ connection.error = "ETIMEDOUT"
    /\ \A s \in {1, 2} : sockets[s].state = "destroyed"
    /\ AllDisposed

\* C16: however many times dispose runs (owner's calls, close, end and error
\* triggers), the listener's close, the client's abort and the connection's
\* close are each invoked at most once, and once dispose has run the three
\* references are cleared.
C16_DisposeIdempotent ==
    /\ listener.closeCalls <= 1
    /\ client.abortCalls <= 1
    /\ connection.closeCalls <= 1
    /\ Disposed => (~proxy.server /\ ~proxy.wsclient /\ ~proxy.wsconnection)

\* dispose has run three times (a socket's end, the connection's close that
\* followed, and the owner's call) and each of the three was closed once.
C16_Witness ==
    /\ emitted = <<StartEvent, EndEvent, EndEvent>>
    /\ calls.dispose = 1
    /\ connection.state = "closed"
    /\ listener.closeCalls = 1 /\ client.abortCalls = 1 /\ connection.closeCalls = 1

\* The upstream connect failed before the listener reported listening: the
\* failure's error is the first event the proxy emitted.
FailedBeforeListening ==
    /\ client.state = "failed"
    /\ emitted # <<>>
    /\ emitted[1] = ErrorEvent(client.error)

\* C17: if the upstream connect fails before the listener has reported
\* listening, 'start' is never emitted, no local socket is ever accepted and
\* later dispose calls cause no further close attempt.
C17_ConnectFailureNeverReady ==
    FailedBeforeListening
    => /\ ~HasEmitted("start")
       /\ \A s \in SocketIds : sockets[s].state = "none"
       /\ listener.closeCalls = 1 /\ client.abortCalls = 1 /\ connection.closeCalls = 0

\* C18: once the proxy has been disposed it stays disposed: no client is
\* created, no connect and no listen is called, no reference is set again and
\* no connection opens; startProxy on the disposed instance only emits the
\* error 'Proxy server is not started.'.
C18_DisposedIsTerminal ==
    [][Disposed
       => /\ Disposed'
          /\ ~proxy'.server /\ ~proxy'.wsclient /\ ~proxy'.wsconnection
          /\ client'.created = client.created
          /\ client'.connectCalls = client.connectCalls
          /\ listener'.listenCalls = listener.listenCalls
          /\ client'.state # "connecting" /\ connection'.state # "open"
          /\ calls'.start > calls.start
                => /\ emitted' = Append(emitted, ErrorEvent(NotStarted))
                   /\ UNCHANGED <<proxy, listener, client, connection, sockets>>]_vars

\* startProxy was called on an instance that a socket's end had disposed.
C18_Witness ==
    /\ Disposed
    /\ calls.start = 2
    /\ client.created = 1 /\ client.connectCalls = 1 /\ listener.listenCalls = 1
    /\ emitted = <<StartEvent, EndEvent, ErrorEvent(NotStarted)>>

(***************************************************************************)
(* Properties of path resolution and directory reading.                    *)
(***************************************************************************)
\* The non-empty segments of a path, read character by character: cur is the
\* segment being read.
RECURSIVE Segments(_, _)
Segments(path, cur) ==
    IF path = <<>> THEN (IF cur = <<>> THEN <<>> ELSE <<cur>>)
    ELSE IF Head(path) = Slash
    THEN (IF cur = <<>> THEN <<>> ELSE <<cur>>) \o Segments(Tail(path), <<>>)
    ELSE Segments(Tail(path), Append(cur, Head(path)))

\* The walk from entry e along the segments through the cached children ds:
\* the entry reached, nothing when a segment is missing from its parent's
\* children or a segment is left at a file; not known when a directory on
\* the way has no cached children.
RECURSIVE Walk(_, _, _)
Walk(ds, e, segments) ==
    IF segments = <<>> THEN [known |-> TRUE, found |-> TRUE, entry |-> e]
    ELSE IF e.type # "Directory" THEN [known |-> TRUE, found |-> FALSE, entry |-> NoEntry]
    ELSE IF ~ds[e.ref].has THEN [known |-> FALSE, found |-> FALSE, entry |-> NoEntry]
    ELSE IF Head(segments) \in DOMAIN ds[e.ref].kids
    THEN Walk(ds, ds[e.ref].kids[Head(segments)], Tail(segments))
    ELSE [known |-> TRUE, found |-> FALSE, entry |-> NoEntry]

\* Caller p's operation of this kind ends in this step.
Ends(p, kind) ==
    /\ procs'[p].kind = kind /\ procs'[p].pc = "done"
    /\ procs[p].pc \notin {"idle", "done"}

\* Caller p's stat searches, in this step, directory e for the next segment.
Searches(p) ==
    /\ procs[p].kind = "stat" /\ procs[p].pc = "lookup" /\ procs[p].todo # <<>>
    /\ procs[p].entry.type = "Directory"
    /\ procs'[p] # procs[p]

\* C19: stat returns the entry reached by walking the path's non-empty
\* segments from the root through each directory's children and fails with
\* FileNotFound when a segment is missing or a non-final segment is a file
\* (a failed listing aside); searching a directory whose children are cached
\* makes no remote call; an uncached directory is listed (one call, or the
\* one in flight is joined) before the segment is judged, and a stat issues
\* at most one listing per segment.
C19_StatWalksSegments ==
    [][\A p \in Callers :
        /\ Ends(p, "stat")
            => LET rec == procs'[p]
                   w == Walk(dirs', RootEntry(rec.uri.site), Segments(rec.uri.path, <<>>))
               IN  /\ rec.outcome \in {"ok", "FileNotFound", "ListFailed"}
                   /\ rec.outcome # "ListFailed"
                        => /\ w.known
                           /\ rec.outcome = (IF w.found THEN "ok" ELSE "FileNotFound")
                           /\ w.found => rec.resEntry = w.entry
                   /\ rec.calls.list <= Len(Segments(rec.uri.path, <<>>))
        /\ (Searches(p) /\ dirs[procs[p].entry.ref].has)
            => nlst' = nlst /\ tasks' = tasks /\ procs'[p].calls = procs[p].calls
        /\ (Searches(p) /\ ~dirs[procs[p].entry.ref].has)
            => /\ procs'[p].pc = "refreshing"
               /\ \/ nlst' = nlst + 1 /\ procs'[p].await = nlst'
                  \/ nlst' = nlst /\ procs'[p].await = dirs[procs[p].entry.ref].task
                     /\ procs'[p].await # 0]_vars

\* One stat reached d/f through a path with an empty segment, listing the
\* root and d; a later stat of d/f/x, through the file, failed with
\* FileNotFound without any remote call.
C19_Witness ==
    \E p, q \in Callers :
        /\ Ended(p, "stat", "ok") /\ procs[p].uri = Uri(DSlashFPath)
        /\ procs[p].resEntry.type = "File" /\ procs[p].resEntry.name = <<"f">>
        /\ procs[p].calls.list = 2
        /\ Ended(q, "stat", "FileNotFound") /\ procs[q].uri = Uri(DFXPath)
        /\ procs[q].calls.list = 0

\* The kind readDirectory reports for an entry of a remote listing.
KindOf(file) == IF file.mime = "inode/directory" THEN "Directory" ELSE "File"

\* C20: readDirectory fails with FileNotADirectory when the path resolves to
\* a file; when it resolves to a directory it returns one (name, kind) pair
\* per entry of that directory's children snapshot, Directory exactly for
\* the entries the remote listing gave the mime type 'inode/directory'.
C20_ReadDirectoryPairs ==
    [][\A p \in Callers :
        Ends(p, "readDirectory")
        => LET rec == procs'[p]
               w == Walk(dirs', RootEntry(rec.uri.site), Segments(rec.uri.path, <<>>))
           IN  /\ rec.outcome \in {"ok", "FileNotADirectory", "FileNotFound", "ListFailed"}
               /\ rec.outcome # "ListFailed"
                    => /\ w.known
                       /\ (rec.outcome = "FileNotADirectory")
                            = (w.found /\ w.entry.type = "File")
                       /\ (rec.outcome = "ok") = (w.found /\ w.entry.type = "Directory")
               /\ rec.outcome = "ok"
                    => LET d == dirs'[w.entry.ref]
                       IN  /\ d.has
                           /\ rec.resList = {<<f.name, KindOf(f)>> : f \in d.src}
                           /\ Cardinality(rec.resList) = Cardinality(d.src)
                           /\ Cardinality(rec.resList) = Cardinality(DOMAIN d.kids)]_vars

\* readDirectory of d returned the file f and the directory e.
C20_Witness ==
    \E p \in Callers :
        /\ Ended(p, "readDirectory", "ok") /\ procs[p].uri = Uri(DPath)
        /\ procs[p].resList = {<< <<"f">>, "File" >>, << <<"e">>, "Directory" >>}

\* Caller p's delete sends its remote delete in this step.
SendsDelete(p) ==
    /\ procs'[p].kind = "delete" /\ procs'[p].pc = "deleteItem"
    /\ procs[p].pc # "deleteItem"

\* C21: a delete whose path resolves to a file first fetches the file's tag
\* and sends the remote delete under exactly that tag; one whose path
\* resolves to a directory fetches no tag and sends the delete with none; the
\* tag is fetched only after the path resolved to a file; when the remote
\* delete fails the operation ends with the error and the cache is left as
\* it is; the parent is looked up and refreshed only once the remote delete
\* has succeeded.
C21_DeleteUnderFetchedTag ==
    [][\A p \in Callers :
        /\ (SendsDelete(p) /\ procs[p].pc = "getFile")
            => /\ procs[p].rq.st = "ok"
               /\ procs'[p].rq.ifMatch = procs[p].rq.etag
               /\ procs'[p].calls.get = 1 /\ procs'[p].calls.del = 1
        /\ (SendsDelete(p) /\ procs[p].pc # "getFile")
            => /\ Walk(dirs', RootEntry(procs'[p].uri.site),
                       Segments(procs'[p].uri.path, <<>>)).entry.type = "Directory"
               /\ procs'[p].rq.ifMatch = NoTag
               /\ procs'[p].calls.get = 0 /\ procs'[p].calls.del = 1
        /\ (procs'[p].kind = "delete" /\ procs'[p].pc = "getFile" /\ procs[p].pc # "getFile")
            => /\ Walk(dirs', RootEntry(procs'[p].uri.site),
                       Segments(procs'[p].uri.path, <<>>)).entry.type = "File"
               /\ procs'[p].calls.get = 1 /\ procs'[p].calls.del = 0
        /\ (procs[p].kind = "delete" /\ procs[p].pc = "deleteItem"
            /\ procs'[p].pc # "deleteItem")
            => IF procs[p].rq.st = "ok"
               THEN procs'[p].pc = "lookup" /\ procs'[p].phase = "parent"
               ELSE /\ procs'[p].pc = "done"
                    /\ procs'[p].outcome \in {"RemoteError", "StaleVersion"}
                    /\ UNCHANGED <<etags, roots, dirs, tasks, nlst>>
        /\ (procs'[p].kind = "delete"
            /\ (procs'[p].phase = "parent" \/ procs'[p].why = "force"))
            => procs'[p].mutOk /\ procs'[p].calls.del = 1]_vars

\* A delete of the file d/f was refused because another writer had replaced
\* the file after its tag was fetched, and a delete of the directory d, sent
\* without fetching a tag, succeeded.
C21_Witness ==
    \E p, q \in Callers :
        /\ Ended(p, "delete", "StaleVersion") /\ procs[p].uri = Uri(DFPath)
        /\ procs[p].calls.get = 1 /\ procs[p].calls.del = 1
        /\ procs[q].kind = "delete" /\ procs[q].uri = Uri(DPath)
        /\ procs[q].calls.get = 0 /\ procs[q].calls.del = 1 /\ procs[q].mutOk

(***************************************************************************)
(* Properties of address resolution.                                       *)
(***************************************************************************)
\* The operations that resolve an address.
Resolving == {"stat", "readDirectory", "readFile", "writeFile", "createDirectory", "delete"}

\* C22: every operation that resolves an address whose host identifier is
\* malformed or unknown fails with Unavailable, and issues no remote file
\* call.
C22_RefusedAddressUnavailable ==
    \A p \in Callers :
        (procs[p].pc = "done" /\ procs[p].kind \in Resolving
         /\ procs[p].calls.resolve = 1 /\ procs[p].uri.site \notin KnownSites)
        => /\ procs[p].outcome = "Unavailable"
           /\ procs[p].calls.list = 0 /\ procs[p].calls.get = 0
           /\ procs[p].calls.put = 0 /\ procs[p].calls.del = 0

(***************************************************************************)
(* Properties of the explorer's listings.                                  *)
(***************************************************************************)
\* The nodes and the entries made for a file of a response.
NodesOf(file) ==
    {k \in 1..Len(explorer.children) :
        /\ explorer.children[k].kind \in {"FileTreeItem", "FolderTreeItem"}
        /\ explorer.children[k].label = file.name}
HasEntry(file) == file.name \in DOMAIN explorer.entries

Listed == {explorer.fileList[i] : i \in 1..Len(explorer.fileList)}
Refreshing == {explorer.response[i] : i \in 1..Len(explorer.response)}

\* The segments of a raw path, either separator ending a segment.
RECURSIVE RawSegments(_, _)
RawSegments(path, cur) ==
    IF path = <<>> THEN <<cur>>
    ELSE IF Head(path) \in {Slash, Backslash}
         THEN <<cur>> \o RawSegments(Tail(path), <<>>)
         ELSE RawSegments(Tail(path), Append(cur, Head(path)))

HasSentinel(path) == \E i \in DOMAIN RawSegments(path, <<>>) : RawSegments(path, <<>>)[i] = Home

\* C23: a file whose raw path has no segment 'home' gets no canonical path:
\* no node of the tree and no entry of a directory is made for it.
C23_NoEntryWithoutSentinel ==
    /\ \A file \in Listed : ~HasSentinel(file.path) => NodesOf(file) = {}
    /\ \A file \in Refreshing : ~HasSentinel(file.path) => ~HasEntry(file)

\* The canonical path of a raw path that has the segment 'home': what follows
\* the first such segment and its separator, every separator a slash.
IsSeparator(c) == c \in {Slash, Backslash}
SentinelAt(path) ==
    LET at == {i \in 0..(Len(path) - Len(Home)) :
                  /\ SubSeq(path, i + 1, i + Len(Home)) = Home
                  /\ (i = 0 \/ IsSeparator(path[i]))
                  /\ (i + Len(Home) = Len(path) \/ IsSeparator(path[i + Len(Home) + 1]))}
    IN  CHOOSE i \in at : \A j \in at : i <= j
ForwardSlashes(s) == [i \in 1..Len(s) |-> IF s[i] = Backslash THEN Slash ELSE s[i]]
Canonical(path) == ForwardSlashes(Substring(path, SentinelAt(path) + Len(Home) + 1))

\* C24: a file whose raw path has the segment 'home' gets the canonical path
\* of that raw path, in the tree's node and in the directory's entry alike.
C24_CanonicalAfterSentinel ==
    /\ \A file \in Listed : HasSentinel(file.path) =>
           \A k \in NodesOf(file) : explorer.children[k].path = Canonical(file.path)
    /\ \A file \in Refreshing : HasSentinel(file.path) =>
           explorer.entries[file.name].entryPath = Canonical(file.path)

\* The names a listing shows: the labels of the file and folder nodes of the
\* tree, the names of the entries of a directory read.
ShownInTree ==
    {explorer.children[k].label : k \in {i \in 1..Len(explorer.children) :
        explorer.children[i].kind \in {"FileTreeItem", "FolderTreeItem"}}}
ShownInDirectory == DOMAIN explorer.entries
IsTrace(name) == Includes(name, <<TracePattern>>)

\* C25: a listing shows no file named after the host's trace file and shows
\* every other file of the response, in the tree and in a directory read.
C25_TraceFileExcluded ==
    /\ explorer.loaded =>
           ShownInTree = {file.name : file \in {f \in Listed : ~IsTrace(f.name)}}
    /\ explorer.refreshed =>
           ShownInDirectory = {file.name : file \in {f \in Refreshing : ~IsTrace(f.name)}}

Sign(n) == IF n < 0 THEN -1 ELSE IF n > 0 THEN 1 ELSE 0
IsSynthetic(ti) == ti.kind = "GenericTreeItem"

\* The order of two names with the case set aside, letter by letter.
RECURSIVE NameBefore(_, _)
NameBefore(s, t) ==
    IF t = <<>> THEN FALSE
    ELSE IF s = <<>> THEN TRUE
    ELSE IF Letter(Head(s)) # Letter(Head(t)) THEN Letter(Head(s)) < Letter(Head(t))
    ELSE NameBefore(Tail(s), Tail(t))

\* C26: among the children of a folder the comparator puts the action node
\* before every other node, orders the other nodes by their names with the
\* case set aside, whatever their kind, and compare(x, y) and compare(y, x)
\* have opposite signs for all nodes x and y.
C26_ComparatorConsistent ==
    \A i, j \in 1..Len(explorer.children) :
        LET x == explorer.children[i]
            y == explorer.children[j]
        IN  /\ Sign(compareChildrenImpl(x, y)) = -Sign(compareChildrenImpl(y, x))
            /\ (IsSynthetic(x) /\ ~IsSynthetic(y)) => compareChildrenImpl(x, y) < 0
            /\ (~IsSynthetic(x) /\ ~IsSynthetic(y) /\ NameBefore(x.label, y.label)) =>
                   compareChildrenImpl(x, y) < 0

(***************************************************************************)
(* Properties of the end of a proxy session.                               *)
(***************************************************************************)
\* The notifications that end a session: 'end', and 'error' with the error
\* of the upstream or of a local socket.
Terminal(ev) == ev.type = "end" \/ (ev.type = "error" /\ ev.err # NotStarted)
Terminals == {i \in 1..Len(emitted) : Terminal(emitted[i])}

\* C27: a proxy reports the end of its session once: it emits at most one
\* of 'end' and 'error' in all, and never both.
C27_OneTerminalNotification ==
    /\ Cardinality(Terminals) <= 1
    /\ ~(\E i, j \in Terminals : emitted[i].type = "end" /\ emitted[j].type = "error")

(***************************************************************************)
(* Properties of the command startRemoteDebug.                             *)
(***************************************************************************)
\* The first 'start' or 'error' the proxy has emitted, 0 when there is none.
FirstSignal ==
    LET sig == {i \in 1..Len(emitted) : emitted[i].type \in {"start", "error"}}
    IN  IF sig = {} THEN 0 ELSE CHOOSE i \in sig : \A j \in sig : i <= j
ErrorFirst == FirstSignal # 0 /\ emitted[FirstSignal].type = "error"

\* C28: the command calls startDebugging only after the proxy has emitted
\* 'start'; when the proxy emits an error before any 'start', the proxy is
\* disposed, startDebugging is never called and the command fails with that
\* error.
C28_AttachOnlyAfterReady ==
    /\ remoteDebug.attachCalls > 0 => HasEmitted("start")
    /\ (ErrorFirst /\ remoteDebug.heard >= FirstSignal) =>
           /\ Disposed
           /\ remoteDebug.attachCalls = 0
           /\ remoteDebug.pc \in {"awaitProxy", "failed"}
           /\ remoteDebug.promise = "rejected"
           /\ remoteDebug.err = emitted[FirstSignal].err

\* The command has failed with the error of a connection attempt, and the
\* proxy has emitted 'start' later.
C28_Witness ==
    /\ ErrorFirst
    /\ remoteDebug.pc = "failed"
    /\ remoteDebug.disposeCalls > 0
    /\ HasEmitted("start")

\* C29: once the session named sessionId has terminated and the command has
\* registered its listener, whichever came first, the proxy the command
\* started is disposed.
C29_TerminatedSessionDisposesProxy ==
    (sessions[sessionId] = "terminated" /\ remoteDebug.pc = "watching") => Disposed

(***************************************************************************)
(* Properties of the roots.                                                *)
(***************************************************************************)
\* The root Directory objects made so far for a site.
IsRoot(o) == o[1] <= 0 /\ o[2] \in Sites
RootsMade(site) == {o \in DOMAIN dirs : IsRoot(o) /\ o[2] = site}

\* C30: for each site at most one root Directory is made, the one of the
\* site's first lookup; every lookup starts its walk at the root registered
\* for its site, the roots of two sites differ, and a registered root is
\* never replaced or removed.
C30_OneRootPerSite ==
    /\ [](\A site \in Sites :
            /\ Cardinality(RootsMade(site)) <= 1
            /\ roots[site] # NoObj => RootsMade(site) = {roots[site]}
            /\ roots[site] = NoObj => RootsMade(site) = {})
    /\ [](\A s, t \in Sites : (s # t /\ roots[s] # NoObj) => roots[s] # roots[t])
    /\ [](\A p \in Callers :
            (procs[p].pc = "lookup" /\ IsRoot(procs[p].entry.ref)) =>
                procs[p].entry.ref = roots[procs[p].uri.site])
    /\ [][\A site \in Sites : roots[site] # NoObj => roots'[site] = roots[site]]_vars

\* Two operations on site A, a write and a delete that walked from its root
\* once and twice, have ended.
C30_Witness ==
    /\ roots[SiteA] # NoObj
    /\ \E p, q \in Callers :
          /\ procs[p].kind = "writeFile" /\ procs[p].outcome = "ok"
          /\ procs[q].kind = "delete" /\ procs[q].pc = "done" /\ procs[q].calls.del = 1

(***************************************************************************)
(* Properties of the tag table under concurrent reads and writes.          *)
(***************************************************************************)
\* No readFile or writeFile of the address is in flight.
NoneInFlight(uri) == \A p \in Callers : procs[p].uri = uri => Free(p)

\* The next writeFile of the address would not be refused as stale: the
\* table has no tag for it, or the tag of the file as the host has it.
TagCurrent(uri) ==
    \/ etags[uri] = NoTag
    \/ remote[uri.path].kind = "file" /\ etags[uri] = remote[uri.path].tag

\* C31: with the adapter as the only writer of a file, whenever no
\* operation on the file is in flight the tag recorded for it is the file's
\* current tag, so that the next write is not refused as stale.
C31_QuiescentTagCurrent ==
    NoneInFlight(Uri(DFPath)) => TagCurrent(Uri(DFPath))

\* A delete of the file has succeeded, the file has not been written again
\* since, and no operation on its address is in flight.
DeletedFile(uri) ==
    /\ remote[uri.path].kind = "none"
    /\ NoneInFlight(uri)
    /\ \E p \in Callers :
          /\ Ended(p, "delete", "ok") /\ procs[p].uri = uri
          /\ procs[p].calls.get = 1 /\ procs[p].mutOk

\* C32: after a delete of a file has succeeded the table holds no tag for
\* the file, so that a write that creates the file again carries no tag.
C32_DeleteClearsTag ==
    DeletedFile(Uri(DFPath)) => etags[Uri(DFPath)] = NoTag

(***************************************************************************)
(* Properties of the entries directly under the host's root.               *)
(***************************************************************************)
\* The path has a single segment.
TopLevel(path) == Len(Parts(path)) = 1

\* C33: a writeFile, createDirectory or delete of an entry directly under
\* the host's root, whose remote change succeeded while no remote call
\* failed, ends successfully.
C33_TopLevelChangeSucceeds ==
    \A p \in Callers :
        (/\ procs[p].pc = "done"
         /\ procs[p].kind \in {"writeFile", "createDirectory", "delete"}
         /\ TopLevel(procs[p].uri.path)
         /\ procs[p].mutOk
         /\ failLeft = MaxFailures)
        => procs[p].outcome = "ok"

(***************************************************************************)
(* Properties of a refresh that fails.                                     *)
(***************************************************************************)
\* The callers that await the listing call: the one that started the refresh
\* and those that joined it.
Awaiting(lid) == {p \in Callers : procs[p].pc = "refreshing" /\ procs[p].await = lid}

\* In this step the listing call ends without its result being assigned to
\* its directory: the call failed.
ListingFails(lid) ==
    /\ lid \in DOMAIN tasks /\ lid \notin DOMAIN tasks'
    /\ dirs'[tasks[lid].dir].lid # lid

\* C34: when the listing call of a refresh fails, every caller that awaits
\* it receives that failure, the directory's cached children (or their
\* absence) are unchanged, and the in-flight handle is cleared, so that the
\* next call starts a new listing.
C34_FailedRefresh ==
    [][\A lid \in DOMAIN tasks :
          ListingFails(lid) =>
              LET d == tasks[lid].dir
              IN  /\ \A p \in Awaiting(lid) :
                        procs'[p].pc = "done" /\ procs'[p].outcome = "ListFailed"
                  /\ dirs'[d].has = dirs[d].has
                  /\ dirs'[d].kids = dirs[d].kids
                  /\ dirs'[d].task = 0]_vars

\* Two callers awaited the one listing call that failed, both were answered
\* with the failure, and the directory, never listed, has no handle left.
C34_Witness ==
    /\ failLeft = MaxFailures - 1
    /\ \E p, q \in Callers :
          /\ p # q
          /\ Ended(p, "stat", "ListFailed") /\ Ended(q, "readDirectory", "ListFailed")
    /\ \E d \in DOMAIN dirs :
          dirs[d].failed /\ ~dirs[d].has /\ dirs[d].task = 0 /\ dirs[d].issued = 1

(***************************************************************************)
(* Properties of the relay after disposal.                                 *)
(***************************************************************************)
\* The sockets of _openSockets that have been destroyed.
DestroyedSockets ==
    {s \in SocketIds : \E i \in 1..Len(proxy.openSockets) :
                           proxy.openSockets[i] = s /\ sockets[s].state = "destroyed"}

ChunkArrives == Len(chunks') = Len(chunks) + 1

\* The upstream connection has not opened yet and the session has not ended.
AwaitingUpstream == client.state = "connecting" /\ ~proxy.wsconnection /\ ~Disposed

\* C36: a chunk that a local socket delivers before the upstream connection
\* has opened is dropped: the step changes nothing but the record of the
\* chunks received (nothing is sent, nothing emitted, the session is as it
\* was), and later nothing is sent upstream except the chunk that arrives
\* in the step that sends it.
C36_EarlyChunkDropped ==
    [][/\ (AwaitingUpstream /\ ChunkArrives)
            => UNCHANGED <<proxy, listener, client, connection, sockets, emitted, received>>
       /\ connection'.sent # connection.sent
            => ChunkArrives /\ connection'.sent = Append(connection.sent, chunks'[Len(chunks')][2])]_vars

\* A socket delivered a chunk before the upstream opened and another one
\* afterwards: only the second was sent, and nothing but 'start' was
\* emitted.
C36_Witness ==
    /\ Relaying
    /\ chunks = << <<1, <<1>> >>, <<1, <<2>> >> >>
    /\ connection.sent = << <<2>> >>
    /\ emitted = <<StartEvent>>

====
